---- MODULE Spec2Model ----
(***************************************************************************)
(* Model of the censorship-cost engines of InsolventByDesign               *)
(* (internal/model/bribe.go, internal/model/concentration.go) and of the   *)
(* Monte Carlo simulation of its analysis package.                         *)
(*                                                                         *)
(* Each specification below draws the arguments of a call in its initial   *)
(* state and has one action per engine function, which stores what the     *)
(* call returns in ret.  args holds the arguments that are not records,    *)
(* tau, topK, successProb or bridgeTVL; rng is the process-wide source of  *)
(* math/rand; fma is how the build fuses a multiplication and an addition. *)
(* The last specifications model the worker pool of                        *)
(* internal/relay/parallel_fetcher.go: one action per step of a worker     *)
(* goroutine, of the caller, of the clock and of the context.              *)
(*                                                                         *)
(* Numbers are modelled by what Go computes:                               *)
(*   - *big.Int is a sign and a magnitude of limbs (math/big's nat), so a  *)
(*     sum is a limb-wise carry chain of unbounded length;                 *)
(*   - float64 and *big.Float are a sign, a mantissa, a binary exponent    *)
(*     and a precision, every operation rounding its exact result to       *)
(*     nearest-even at that precision.  Exponent overflow and underflow    *)
(*     are out of reach of the magnitudes used here, and the sign of a     *)
(*     zero (which Sign and Cmp do not observe) is not kept.               *)
(***************************************************************************)
EXTENDS Integers, Sequences, FiniteSets, TLC

VARIABLES bribes, tau, topK, successProb, bridgeTVL, args, rng, fma, pc, ret,
          slotQueue, resultsCh, errorsCh, workers, ctxDone, rateLimiter, now

\* the state of a ParallelFetcher and of its call of FetchSlotsParallel
fetcher == <<slotQueue, resultsCh, errorsCh, workers, ctxDone, rateLimiter, now>>

vars == <<bribes, tau, topK, successProb, bridgeTVL, args, rng, fma, pc, ret, fetcher>>

\* no fetcher was made
NoFetcher ==
    /\ slotQueue = <<>>
    /\ resultsCh = <<>>
    /\ errorsCh = <<>>
    /\ workers = <<>>
    /\ ctxDone = FALSE
    /\ rateLimiter = 0
    /\ now = 0

\* ------------------------------------------------------------------------
\* Bounds of the model
\* ------------------------------------------------------------------------

\* longest record sequence handed to an engine
MaxLen == 3

\* ------------------------------------------------------------------------
\* math/big nat: little-endian limbs, no leading zero limb, zero is <<>>
\* ------------------------------------------------------------------------

\* one limb holds LimbBits bits (a machine Word in math/big; narrower here so
\* that a column of limb products stays inside the checker's integers)
LimbBits == 12

Base == 2^LimbBits

\* the element of a one-element set: Only({e(v) : v \in {d}}) is e(d) with d
\* evaluated once
Only(S) == CHOOSE x \in S : TRUE

Limb(a, i) == IF 1 <= i /\ i <= Len(a) THEN a[i] ELSE 0

\* the nat of a small non-negative integer
RECURSIVE natOf(_)
natOf(n) == IF n = 0 THEN <<>> ELSE <<n % Base>> \o natOf(n \div Base)

\* a without its leading zero limbs
natNorm(a) ==
    IF a = <<>> THEN a ELSE
    LET n == CHOOSE k \in 0..Len(a) :
                 (k = 0 \/ a[k] # 0) /\ \A h \in (k + 1)..Len(a) : a[h] = 0
    IN  SubSeq(a, 1, n)

natMaxLen(a, b) == IF Len(a) > Len(b) THEN Len(a) ELSE Len(b)

\* the carry into limb i of a + b: some limb below i overflows and every limb
\* between it and i passes a carry on
natCarry(a, b, i) ==
    IF \E j \in 1..(i - 1) :
           /\ Limb(a, j) + Limb(b, j) >= Base
           /\ \A k \in (j + 1)..(i - 1) : Limb(a, k) + Limb(b, k) = Base - 1
    THEN 1 ELSE 0

natAdd(a, b) ==
    IF a = <<>> THEN b ELSE IF b = <<>> THEN a ELSE
    natNorm([i \in 1..(natMaxLen(a, b) + 1) |->
                (Limb(a, i) + Limb(b, i) + natCarry(a, b, i)) % Base])

\* the borrow from limb i of a - b
natBorrow(a, b, i) ==
    IF \E j \in 1..(i - 1) :
           /\ Limb(a, j) < Limb(b, j)
           /\ \A k \in (j + 1)..(i - 1) : Limb(a, k) = Limb(b, k)
    THEN 1 ELSE 0

\* a - b for a >= b
natSub(a, b) ==
    IF b = <<>> THEN a ELSE
    natNorm([i \in 1..Len(a) |->
                (Base + a[i] - Limb(b, i) - natBorrow(a, b, i)) % Base])

\* -1, 0, +1 as a < b, a = b, a > b
natCmp(a, b) ==
    IF Len(a) > Len(b) THEN 1
    ELSE IF Len(a) < Len(b) THEN -1
    ELSE IF a = b THEN 0
    ELSE LET k == CHOOSE k \in 1..Len(a) :
                      a[k] # b[k] /\ \A h \in (k + 1)..Len(a) : a[h] = b[h]
         IN  IF a[k] > b[k] THEN 1 ELSE -1

\* column k of the product: the sum of a[i] * b[k + 1 - i] from i up
RECURSIVE natColumn(_, _, _, _)
natColumn(a, b, k, i) ==
    IF i > Len(a) \/ i > k THEN 0
    ELSE Limb(a, i) * Limb(b, k + 1 - i) + natColumn(a, b, k, i + 1)

\* a * b: the columns of limb products, each split into three limbs, make
\* three numbers that are added
natMul(a, b) ==
    IF a = <<>> \/ b = <<>> THEN <<>>
    ELSE Only({
             LET n == Len(col)
                 lo == [k \in 1..n |-> col[k] % Base]
                 mid == [k \in 1..(n + 1) |->
                            IF k = 1 THEN 0 ELSE (col[k - 1] \div Base) % Base]
                 hi == [k \in 1..(n + 2) |->
                            IF k <= 2 THEN 0 ELSE col[k - 2] \div (Base * Base)]
             IN  natAdd(natAdd(natNorm(lo), natNorm(mid)), natNorm(hi)) :
             col \in {[k \in 1..(Len(a) + Len(b) - 1) |-> natColumn(a, b, k, 1)]}})

limbBitLen(x) ==
    CHOOSE n \in 0..LimbBits : x < 2^n /\ (n = 0 \/ x >= 2^(n - 1))

\* number of bits of a; 0 for zero
natBitLen(a) ==
    IF a = <<>> THEN 0 ELSE LimbBits * (Len(a) - 1) + limbBitLen(a[Len(a)])

\* bit i of a, bit 0 the lowest
natBit(a, i) == (Limb(a, (i \div LimbBits) + 1) \div 2^(i % LimbBits)) % 2

\* a * 2^n
natShl(a, n) ==
    IF a = <<>> \/ n = 0 THEN a ELSE
    LET q == n \div LimbBits
        r == n % LimbBits
    IN  natNorm([i \in 1..(Len(a) + q + 1) |->
                    IF i <= q THEN 0
                    ELSE ((Limb(a, i - q) * 2^r) % Base)
                         + (Limb(a, i - q - 1) \div 2^(LimbBits - r))])

\* floor(a / 2^n)
natShr(a, n) ==
    IF a = <<>> \/ n = 0 THEN a ELSE
    LET q == n \div LimbBits
        r == n % LimbBits
    IN  natNorm([i \in 1..(Len(a) - q) |->
                    (Limb(a, i + q) \div 2^r)
                    + ((Limb(a, i + q + 1) % 2^r) * 2^(LimbBits - r))])

\* the n lowest bits of a are all zero
natLowZero(a, n) ==
    /\ \A j \in 1..(n \div LimbBits) : Limb(a, j) = 0
    /\ Limb(a, (n \div LimbBits) + 1) % 2^(n % LimbBits) = 0

limbTrailingZeros(x) ==
    CHOOSE n \in 0..(LimbBits - 1) : x % 2^n = 0 /\ (x \div 2^n) % 2 = 1

\* number of zero bits below the lowest set bit of a # 0
natTrailingZeros(a) ==
    LET j == CHOOSE k \in 1..Len(a) : a[k] # 0 /\ \A h \in 1..(k - 1) : a[h] = 0
    IN  LimbBits * (j - 1) + limbTrailingZeros(a[j])

\* one step of long division (Knuth's algorithm D): <<quotient limb,
\* remainder>> of u = r * Base + x by b, for a remainder r < b and the next
\* limb x, b with its top limb >= Base / 2.  The limb estimated from the two
\* top limbs of u is at most 2 too large.
natDivStep(r, x, b) ==
    Only({
        LET n == Len(b)
            est == (Limb(u, n + 1) * Base + Limb(u, n)) \div b[n]
            q0 == IF est > Base - 1 THEN Base - 1 ELSE est
        IN  IF u = <<>> THEN <<0, u>>
            ELSE Only({
                IF natCmp(p0, u) <= 0 THEN <<q0, natSub(u, p0)>>
                ELSE Only({
                    IF natCmp(p1, u) <= 0 THEN <<q0 - 1, natSub(u, p1)>>
                    ELSE <<q0 - 2, natSub(u, natSub(p1, b))>> :
                    p1 \in {natSub(p0, b)}}) :
                p0 \in {natMul(b, natOf(q0))}}) :
        u \in {natNorm(<<x>> \o r)}})

\* long division of the limbs i..1 of a; ds holds the steps of the limbs
\* above i, the latest first
RECURSIVE natDivModAt(_, _, _, _)
natDivModAt(a, b, i, ds) ==
    IF i = 0 THEN ds
    ELSE IF ds[1][2] = <<>> /\ a[i] = 0
    THEN natDivModAt(a, b, i - 1, <<<<0, <<>>>>>> \o ds)
    ELSE natDivModAt(a, b, i - 1, <<natDivStep(ds[1][2], a[i], b)>> \o ds)

\* <<floor(a / b), a mod b>> for b > 0: both are shifted left until the top
\* limb of b is at least Base / 2, which leaves the quotient unchanged
natDivMod(a, b) ==
    LET s == LimbBits - limbBitLen(b[Len(b)])
    IN  Only({<<natNorm([i \in 1..(Len(ds) - 1) |-> ds[i][1]]), natShr(ds[1][2], s)>> :
                 ds \in {Only({natDivModAt(aa, bb, Len(aa), <<<<0, <<>>>>>>) :
                                  aa \in {natShl(a, s)}, bb \in {natShl(b, s)}})}})

\* ------------------------------------------------------------------------
\* math/big Int: sign and magnitude; a nil *big.Int is IntNil
\* ------------------------------------------------------------------------

IntNil == [nil |-> TRUE, neg |-> FALSE, abs |-> <<>>]

IntPos(a) == [nil |-> FALSE, neg |-> FALSE, abs |-> a]

IntZero == IntPos(<<>>)

\* z.Add(x, y)
IntAdd(x, y) ==
    LET sameSign == x.neg = y.neg
        xBigger == natCmp(x.abs, y.abs) >= 0
        mag == IF sameSign THEN natAdd(x.abs, y.abs)
               ELSE IF xBigger THEN natSub(x.abs, y.abs)
               ELSE natSub(y.abs, x.abs)
        sign == IF sameSign \/ xBigger THEN x.neg ELSE ~x.neg
    IN  [nil |-> FALSE, neg |-> (mag # <<>>) /\ sign, abs |-> mag]

\* ------------------------------------------------------------------------
\* float64 and math/big Float: (-1)^neg * mant * 2^exp, rounded to prec bits.
\* mant is kept odd (or zero, with exp 0), so equal numbers of one precision
\* are equal records.
\* ------------------------------------------------------------------------

\* mantissa bits of a float64
F64Prec == 53

\* precision SetInt gives an integer of at most 64 bits
IntPrec == 64

fltCanon(neg, m, e, prec) ==
    IF m = <<>> THEN [neg |-> FALSE, mant |-> <<>>, exp |-> 0, prec |-> prec]
    ELSE LET tz == natTrailingZeros(m)
         IN  [neg |-> neg, mant |-> natShr(m, tz), exp |-> e + tz, prec |-> prec]

\* the number m * 2^e rounded to prec bits, ties to even
fltRound(neg, m, e, prec) ==
    Only({
        LET bl == natBitLen(mm)
        IN  IF bl <= prec THEN fltCanon(neg, mm, e, prec)
            ELSE LET s == bl - prec
                     half == natBit(mm, s - 1) = 1
                     sticky == ~natLowZero(mm, s - 1)
                 IN  Only({fltCanon(neg,
                                    IF half /\ (sticky \/ natBit(q, 0) = 1)
                                    THEN natAdd(q, <<1>>) ELSE q,
                                    e + s, prec) :
                              q \in {natShr(mm, s)}}) :
        mm \in {m}})

fltSign(x) == IF x.mant = <<>> THEN 0 ELSE IF x.neg THEN -1 ELSE 1

fltNeg(x) == [x EXCEPT !.neg = (x.mant # <<>>) /\ ~x.neg]

fltMin(a, b) == IF a < b THEN a ELSE b

fltMax(a, b) == IF a > b THEN a ELSE b

\* the exact sum of x and y, rounded to prec bits
fltAdd(x, y, prec) ==
    LET e == fltMin(x.exp, y.exp)
        mx == natShl(x.mant, x.exp - e)
        my == natShl(y.mant, y.exp - e)
    IN  Only({fltRound(s.neg, s.abs, e, prec) :
                 s \in {IntAdd([nil |-> FALSE, neg |-> x.neg, abs |-> mx],
                               [nil |-> FALSE, neg |-> y.neg, abs |-> my])}})

fltSub(x, y, prec) == fltAdd(x, fltNeg(y), prec)

\* the exact product of x and y, rounded to prec bits
fltMul(x, y, prec) ==
    fltRound(x.neg # y.neg, natMul(x.mant, y.mant), x.exp + y.exp, prec)

\* the exact quotient x / y (y nonzero), rounded to prec bits: the quotient of
\* the mantissas is taken to prec + 2 bits at least and a nonzero remainder
\* is kept as one more low bit
fltQuo(x, y, prec) ==
    IF x.mant = <<>> THEN fltCanon(FALSE, <<>>, 0, prec)
    ELSE LET s == fltMax(0, prec + 2 + natBitLen(y.mant) - natBitLen(x.mant))
         IN  Only({fltRound(x.neg # y.neg,
                            natAdd(natAdd(qr[1], qr[1]),
                                   IF qr[2] = <<>> THEN <<>> ELSE <<1>>),
                            x.exp - y.exp - s - 1, prec) :
                      qr \in {natDivMod(natShl(x.mant, s), y.mant)}})

\* -1, 0, +1 as x < y, x = y, x > y
fltCmp(x, y) == fltSign(fltSub(x, y, natBitLen(x.mant) + natBitLen(y.mant) + 1))

\* float64(n) for a small integer n, and the float64 nearest to n / d
f64OfInt(n) == fltRound(n < 0, natOf(IF n < 0 THEN -n ELSE n), 0, F64Prec)

f64Ratio(n, d) == fltQuo(f64OfInt(n), f64OfInt(d), F64Prec)

f64Sub(x, y) == Only({fltSub(a, b, F64Prec) : a \in {x}, b \in {y}})

f64Div(x, y) == Only({fltQuo(a, b, F64Prec) : a \in {x}, b \in {y}})

\* big.NewFloat(x): the float64 x at precision 53
NewFloat(x) == [x EXCEPT !.prec = F64Prec]

\* new(big.Float).SetInt(x): exact, precision max(x.BitLen(), 64)
SetInt(x) == fltCanon(x.neg, x.abs, 0, fltMax(natBitLen(x.abs), IntPrec))

\* new(big.Float).Mul(x, y), .Sub(x, y), .Quo(x, y): the receiver has precision
\* 0, so the result takes the larger precision of the operands
Mul(x, y) == fltMul(x, y, fltMax(x.prec, y.prec))

Sub(x, y) == fltSub(x, y, fltMax(x.prec, y.prec))

Quo(x, y) == fltQuo(x, y, fltMax(x.prec, y.prec))

\* the float64 constants 0 and 1 of the range checks
F64Zero == f64OfInt(0)

F64One == f64OfInt(1)

\* a nil *big.Float
FloatNil == [nil |-> TRUE]

\* ------------------------------------------------------------------------
\* Errors: a nil error is <<>>; fmt.Errorf("...: %w", err) puts its message
\* in front of the messages of err
\* ------------------------------------------------------------------------

ErrNil == <<>>

Errorf(msg) == <<msg>>

Wrap(msg, err) == <<msg>> \o err

\* ------------------------------------------------------------------------
\* internal/model/bribe.go: CensorshipCost
\* ------------------------------------------------------------------------

\* the low n bits of a
natLow(a, n) ==
    natNorm([i \in 1..((n \div LimbBits) + 1) |->
                IF i <= n \div LimbBits THEN Limb(a, i)
                ELSE Limb(a, i) % 2^(n % LimbBits)])

\* variant of the loop with a uint64 accumulator, which wraps
RECURSIVE CensorshipCostLoopUint64(_, _, _, _)
CensorshipCostLoopUint64(b, t, i, total) ==
    IF i >= t THEN [cost |-> total, err |-> ErrNil]
    ELSE IF b[i + 1].ValueWei.nil
    THEN [cost |-> IntNil, err |-> Errorf("nil ValueWei")]
    ELSE CensorshipCostLoopUint64(b, t, i + 1,
             IntPos(natLow(natAdd(total.abs, b[i + 1].ValueWei.abs), 64)))

\* variant of the loop that skips a record without a value
RECURSIVE CensorshipCostLoopSkipNil(_, _, _, _)
CensorshipCostLoopSkipNil(b, t, i, total) ==
    IF i >= t THEN [cost |-> total, err |-> ErrNil]
    ELSE IF b[i + 1].ValueWei.nil
    THEN CensorshipCostLoopSkipNil(b, t, i + 1, total)
    ELSE CensorshipCostLoopSkipNil(b, t, i + 1, IntAdd(total, b[i + 1].ValueWei))

\* the loop of CensorshipCost from index i (0-based) with the running total
RECURSIVE CensorshipCostLoop(_, _, _, _)
CensorshipCostLoop(b, t, i, total) ==
    IF i >= t THEN [cost |-> total, err |-> ErrNil]
    ELSE IF b[i + 1].ValueWei.nil
    THEN [cost |-> IntNil, err |-> Errorf("nil ValueWei")]
    ELSE CensorshipCostLoop(b, t, i + 1, IntAdd(total, b[i + 1].ValueWei))

\* variant of CensorshipCost that also refuses tau = len(bribes)
CensorshipCostStrict(b, t) ==
    IF Len(b) <= t
    THEN [cost |-> IntNil, err |-> Errorf("insufficient data")]
    ELSE CensorshipCostLoop(b, t, 0, IntZero)

\* variant of CensorshipCost whose total outlives the call: a call made after
\* a successful one goes on from the total that one returned
CensorshipCostSharedTotal(b, t) ==
    IF Len(b) < t
    THEN [cost |-> IntNil, err |-> Errorf("insufficient data")]
    ELSE CensorshipCostLoop(b, t, 0,
             IF pc = "CensorshipCost" /\ ret.err = ErrNil THEN ret.cost ELSE IntZero)

CensorshipCost(b, t) ==
    IF Len(b) < t
    THEN [cost |-> IntNil, err |-> Errorf("insufficient data")]
    ELSE CensorshipCostLoop(b, t, 0, IntZero)

\* ------------------------------------------------------------------------
\* internal/model/concentration.go: ComputeBuilderConcentration
\* ------------------------------------------------------------------------

\* variant of the map key that keeps an empty pubkey as it is
BuilderKeyRaw(bribe) == bribe.BuilderPubkey

\* the map key of a record: an empty pubkey counts as "unknown"
BuilderKey(bribe) ==
    IF bribe.BuilderPubkey = "" THEN "unknown" ELSE bribe.BuilderPubkey

\* builderCounts after the counting loop
BuilderCounts(b) ==
    [key \in {BuilderKey(b[i]) : i \in 1..Len(b)} |->
        Cardinality({i \in 1..Len(b) : BuilderKey(b[i]) = key})]

\* GetBuilderDiversity: len(builders) after the loop over the records
GetBuilderDiversity(b) == Cardinality({BuilderKey(b[i]) : i \in 1..Len(b)})

\* variant of the sort that ranks ascending by block count
SortedStatsAscending(counts) ==
    LET keys == DOMAIN counts
        n == Cardinality(keys)
    IN  {[i \in 1..n |-> [BuilderPubkey |-> f[i], BlockCount |-> counts[f[i]]]] :
            f \in {g \in [1..n -> keys] :
                      /\ \A i, j \in 1..n : i # j => g[i] # g[j]
                      /\ \A i \in 1..(n - 1) : counts[g[i]] <= counts[g[i + 1]]}}

\* variant without the sort: the entries in the order the map was iterated
SortedStatsUnsorted(counts) ==
    LET keys == DOMAIN counts
        n == Cardinality(keys)
    IN  {[i \in 1..n |-> [BuilderPubkey |-> f[i], BlockCount |-> counts[f[i]]]] :
            f \in {g \in [1..n -> keys] : \A i, j \in 1..n : i # j => g[i] # g[j]}}

\* every order sort.Slice may leave the entries of the map in: descending by
\* block count, entries of equal count in any order (the map is iterated in
\* no fixed order and the sort is not stable)
SortedStats(counts) ==
    LET keys == DOMAIN counts
        n == Cardinality(keys)
    IN  {[i \in 1..n |-> [BuilderPubkey |-> f[i], BlockCount |-> counts[f[i]]]] :
            f \in {g \in [1..n -> keys] :
                      /\ \A i, j \in 1..n : i # j => g[i] # g[j]
                      /\ \A i \in 1..(n - 1) : counts[g[i]] >= counts[g[i + 1]]}}

\* topKBlocks: the sum of the first k block counts
RECURSIVE TopKBlocks(_, _)
TopKBlocks(stats, k) ==
    IF k = 0 THEN 0 ELSE TopKBlocks(stats, k - 1) + stats[k].BlockCount

\* variant of ComputeBuilderConcentration that checks topK before the
\* length of the slice
ComputeBuilderConcentrationTopKFirst(b, k, stats) ==
    IF k < 1
    THEN [alpha |-> F64Zero, stats |-> <<>>, err |-> Errorf("topK must be at least 1")]
    ELSE IF Len(b) = 0
    THEN [alpha |-> F64Zero, stats |-> <<>>, err |-> Errorf("empty bribes slice")]
    ELSE LET actualK == IF k > Len(stats) THEN Len(stats) ELSE k
         IN  [alpha |-> f64Div(f64OfInt(TopKBlocks(stats, actualK)), f64OfInt(Len(b))),
              stats |-> stats,
              err |-> ErrNil]

\* variant of ComputeBuilderConcentration that divides by the number of
\* builders instead of the number of blocks
ComputeBuilderConcentrationPerBuilder(b, k, stats) ==
    IF Len(b) = 0
    THEN [alpha |-> F64Zero, stats |-> <<>>, err |-> Errorf("empty bribes slice")]
    ELSE IF k < 1
    THEN [alpha |-> F64Zero, stats |-> <<>>, err |-> Errorf("topK must be at least 1")]
    ELSE LET actualK == IF k > Len(stats) THEN Len(stats) ELSE k
         IN  [alpha |-> f64Div(f64OfInt(TopKBlocks(stats, actualK)), f64OfInt(Len(stats))),
              stats |-> stats,
              err |-> ErrNil]

\* ComputeBuilderConcentration, given the order stats the sort left
ComputeBuilderConcentration(b, k, stats) ==
    IF Len(b) = 0
    THEN [alpha |-> F64Zero, stats |-> <<>>, err |-> Errorf("empty bribes slice")]
    ELSE IF k < 1
    THEN [alpha |-> F64Zero, stats |-> <<>>, err |-> Errorf("topK must be at least 1")]
    ELSE LET actualK == IF k > Len(stats) THEN Len(stats) ELSE k
         IN  [alpha |-> f64Div(f64OfInt(TopKBlocks(stats, actualK)), f64OfInt(Len(b))),
              stats |-> stats,
              err |-> ErrNil]

\* ------------------------------------------------------------------------
\* internal/model/bribe.go: EffectiveCensorshipCost, AttackerProfit,
\* FindBreakevenTVL
\* ------------------------------------------------------------------------

EffFailed(err) == [cost |-> FloatNil, alpha |-> F64Zero, err |-> err]

\* variant of EffectiveCensorshipCost that multiplies the cost by alpha
\* instead of the discount 1 - alpha
EffectiveCensorshipCostOfAlpha(cc, conc) ==
    IF cc.err # ErrNil
    THEN EffFailed(Wrap("failed to compute censorship cost", cc.err))
    ELSE IF conc.err # ErrNil
    THEN EffFailed(Wrap("failed to compute concentration", conc.err))
    ELSE [cost |-> Mul(SetInt(cc.cost), NewFloat(conc.alpha)),
          alpha |-> conc.alpha,
          err |-> ErrNil]

\* EffectiveCensorshipCost from the results cc of CensorshipCost and conc of
\* ComputeBuilderConcentration
EffectiveCensorshipCostOf(cc, conc) ==
    IF cc.err # ErrNil
    THEN EffFailed(Wrap("failed to compute censorship cost", cc.err))
    ELSE IF conc.err # ErrNil
    THEN EffFailed(Wrap("failed to compute concentration", conc.err))
    ELSE IF fltSign(conc.alpha) < 0 \/ fltCmp(conc.alpha, F64One) > 0
    THEN EffFailed(Errorf("invalid alpha value"))
    ELSE [cost |-> Mul(SetInt(cc.cost), NewFloat(f64Sub(F64One, conc.alpha))),
          alpha |-> conc.alpha,
          err |-> ErrNil]

\* variant of EffectiveCensorshipCost whose concentration is computed over
\* the first tau records only
EffectiveCensorshipCostWindowed(b, t, k, stats) ==
    EffectiveCensorshipCostOf(
        CensorshipCost(b, t),
        ComputeBuilderConcentration(SubSeq(b, 1, t), k,
            CHOOSE st \in SortedStats(BuilderCounts(SubSeq(b, 1, t))) : TRUE))

\* variant of EffectiveCensorshipCost that returns a zero cost for tau = 0
\* without computing the concentration
EffectiveCensorshipCostZeroTau(b, t, k, stats) ==
    IF t = 0
    THEN [cost |-> SetInt(IntZero), alpha |-> F64Zero, err |-> ErrNil]
    ELSE EffectiveCensorshipCostOf(CensorshipCost(b, t),
                                   ComputeBuilderConcentration(b, k, stats))

EffectiveCensorshipCost(b, t, k, stats) ==
    EffectiveCensorshipCostOf(CensorshipCost(b, t),
                              ComputeBuilderConcentration(b, k, stats))

ProfitNil == [nil |-> TRUE]

\* the parameter checks of AttackerProfit: the error, ErrNil if they pass
ValidateParams(params) ==
    IF fltSign(params.SuccessProbability) < 0
       \/ fltCmp(params.SuccessProbability, F64One) > 0
    THEN Errorf("invalid success probability")
    ELSE IF params.BridgeTVL = FloatNil
    THEN Errorf("BridgeTVL cannot be nil")
    ELSE IF fltSign(params.BridgeTVL) < 0
    THEN Errorf("BridgeTVL cannot be negative")
    ELSE ErrNil

\* variant of the result of AttackerProfit that subtracts the revenue from
\* the cost
ProfitResultSwapped(params, eff, expectedRevenue) ==
    [res |-> [ExpectedRevenue |-> expectedRevenue,
              EffectiveCost |-> eff.cost,
              Profit |-> Sub(eff.cost, expectedRevenue),
              Alpha |-> eff.alpha,
              SuccessProb |-> params.SuccessProbability,
              TVL |-> params.BridgeTVL],
     err |-> ErrNil]

\* the result of AttackerProfit from the effective cost and the revenue
ProfitResult(params, eff, expectedRevenue) ==
    [res |-> [ExpectedRevenue |-> expectedRevenue,
              EffectiveCost |-> eff.cost,
              Profit |-> Sub(expectedRevenue, eff.cost),
              Alpha |-> eff.alpha,
              SuccessProb |-> params.SuccessProbability,
              TVL |-> params.BridgeTVL],
     err |-> ErrNil]

\* AttackerProfit once the parameters are validated, from the result eff of
\* EffectiveCensorshipCost
AttackerProfitOf(params, eff) ==
    IF eff.err # ErrNil
    THEN [res |-> ProfitNil, err |-> Wrap("failed to compute effective cost", eff.err)]
    ELSE ProfitResult(params, eff,
                      Mul(NewFloat(params.SuccessProbability), params.BridgeTVL))

\* the validation of AttackerProfit with the error invalid of the checks
AttackerProfitChecked(b, params, stats, invalid) ==
    IF invalid # ErrNil
    THEN [res |-> ProfitNil, err |-> invalid]
    ELSE AttackerProfitOf(params,
             EffectiveCensorshipCost(b, params.Tau, params.TopK, stats))

\* variant of AttackerProfit that computes the effective cost before it
\* validates the parameters
AttackerProfitCostFirst(b, params, stats) ==
    LET eff == EffectiveCensorshipCost(b, params.Tau, params.TopK, stats)
    IN  IF eff.err # ErrNil
        THEN [res |-> ProfitNil,
              err |-> Wrap("failed to compute effective cost", eff.err)]
        ELSE AttackerProfitChecked(b, params, stats, ValidateParams(params))

AttackerProfit(b, params, stats) ==
    AttackerProfitChecked(b, params, stats, ValidateParams(params))

BreakevenFailed(err) == [breakeven |-> FloatNil, alpha |-> F64Zero, err |-> err]

\* variant of FindBreakevenTVL that multiplies the cost by the probability
FindBreakevenTVLOfTimesP(p, eff) ==
    IF eff.err # ErrNil
    THEN BreakevenFailed(Wrap("failed to compute effective cost", eff.err))
    ELSE [breakeven |-> Mul(eff.cost, NewFloat(p)),
          alpha |-> eff.alpha,
          err |-> ErrNil]

\* FindBreakevenTVL for a valid p, from the result eff of
\* EffectiveCensorshipCost
FindBreakevenTVLOf(p, eff) ==
    IF eff.err # ErrNil
    THEN BreakevenFailed(Wrap("failed to compute effective cost", eff.err))
    ELSE [breakeven |-> Quo(eff.cost, NewFloat(p)),
          alpha |-> eff.alpha,
          err |-> ErrNil]

\* variant of FindBreakevenTVL that rejects p < 0 only, so that p = 0 reaches
\* the division (+Inf for a positive cost)
FindBreakevenTVLZeroAccepted(b, p, t, k, stats) ==
    IF fltSign(p) < 0 \/ fltCmp(p, F64One) > 0
    THEN BreakevenFailed(Errorf("success probability must be in (0,1]"))
    ELSE IF fltSign(p) = 0
    THEN [breakeven |-> [inf |-> TRUE], alpha |-> F64Zero, err |-> ErrNil]
    ELSE FindBreakevenTVLOf(p, EffectiveCensorshipCost(b, t, k, stats))

FindBreakevenTVL(b, p, t, k, stats) ==
    IF fltSign(p) <= 0 \/ fltCmp(p, F64One) > 0
    THEN BreakevenFailed(Errorf("success probability must be in (0,1]"))
    ELSE FindBreakevenTVLOf(p, EffectiveCensorshipCost(b, t, k, stats))

\* ------------------------------------------------------------------------
\* Inputs
\* ------------------------------------------------------------------------

\* the largest uint64, the bid value of TestCensorshipCost_NoOverflow
MaxUint64 == natSub(natShl(<<1>>, 64), <<1>>)

\* the record sequences of at most MaxLen records whose fields are drawn
\* from the given sets
BribeSeqs(slots, values, builders) ==
    UNION {[1..n -> [Slot : slots, ValueWei : values, BuilderPubkey : builders]] :
              n \in 0..MaxLen}

NoRet == [none |-> TRUE]

\* no further arguments
NoArgs == [none |-> TRUE]

\* ------------------------------------------------------------------------
\* Specification SpecCost: one call of CensorshipCost on any record
\* sequence and any tau
\* ------------------------------------------------------------------------

CostValues == {IntNil, IntZero, IntPos(natOf(1000)), IntPos(MaxUint64)}

InitCost ==
    /\ bribes \in BribeSeqs({1, 2}, CostValues, {"a"})
    /\ tau \in 0..(MaxLen + 1)
    /\ topK = 1
    /\ successProb = F64Zero
    /\ bridgeTVL = FloatNil
    /\ args = NoArgs
    /\ rng = <<>>
    /\ fma = "none"
    /\ pc = "start"
    /\ ret = NoRet
    /\ NoFetcher

CallCensorshipCost ==
    /\ pc = "start"
    /\ ret' = CensorshipCost(bribes, tau)
    /\ pc' = "CensorshipCost"
    /\ UNCHANGED <<bribes, tau, topK, successProb, bridgeTVL, args, rng, fma, fetcher>>

NextCost == CallCensorshipCost

SpecCost == InitCost /\ [][NextCost]_vars

\* ------------------------------------------------------------------------
\* Properties of CensorshipCost
\* ------------------------------------------------------------------------

\* the sum of limb k over the first i numbers of vs
RECURSIVE SumLimbs(_, _, _)
SumLimbs(vs, k, i) ==
    IF i = 0 THEN 0 ELSE Limb(vs[i], k) + SumLimbs(vs, k, i - 1)

\* the carry of the column addition of vs into limb k
RECURSIVE ColumnCarry(_, _)
ColumnCarry(vs, k) ==
    IF k = 1 THEN 0
    ELSE (SumLimbs(vs, k - 1, Len(vs)) + ColumnCarry(vs, k - 1)) \div Base

\* the mathematical sum of the numbers of vs, added column by column
ExactSum(vs) ==
    LET w == IF vs = <<>> THEN 0
             ELSE CHOOSE n \in {Len(vs[i]) : i \in DOMAIN vs} :
                      \A i \in DOMAIN vs : Len(vs[i]) <= n
    IN  natNorm([k \in 1..(w + 1) |->
                    (SumLimbs(vs, k, Len(vs)) + ColumnCarry(vs, k)) % Base])

HasNilAmongFirst(b, t) == \E i \in 1..t : i <= Len(b) /\ b[i].ValueWei.nil

\* C1: when tau <= len(records) and the first tau records all carry a value,
\* CensorshipCost returns without error exactly the mathematical sum of the
\* values of the first tau records in input order, never reduced modulo 2^64
C1_ExactSum ==
    (pc = "CensorshipCost" /\ tau <= Len(bribes) /\ ~HasNilAmongFirst(bribes, tau))
        => /\ ret.err = ErrNil
           /\ ret.cost = IntPos(ExactSum([i \in 1..tau |-> bribes[i].ValueWei.abs]))

\* two records each worth 2^64-1, slots not ascending, tau = 2: 2*(2^64-1)
C1_Witness ==
    /\ pc = "CensorshipCost"
    /\ tau = 2
    /\ Len(bribes) = 3
    /\ bribes[1].ValueWei = IntPos(MaxUint64)
    /\ bribes[2].ValueWei = IntPos(MaxUint64)
    /\ bribes[1].Slot > bribes[2].Slot
    /\ ret.err = ErrNil
    /\ ret.cost = IntPos(natMul(MaxUint64, <<2>>))
    /\ natCmp(ret.cost.abs, MaxUint64) > 0

\* C6: CensorshipCost fails with "insufficient data", returning no cost,
\* exactly when len(records) < tau, whatever the records contain; with
\* tau = 0 it never fails and returns zero
C6_InsufficientData ==
    pc = "CensorshipCost"
        => /\ (ret.err = Errorf("insufficient data")) <=> (Len(bribes) < tau)
           /\ (Len(bribes) < tau) => ret.cost = IntNil
           /\ (tau = 0) => (ret.err = ErrNil /\ ret.cost = IntZero)

\* tau = 0 on an empty record sequence returns zero
C6_Witness ==
    /\ pc = "CensorshipCost"
    /\ tau = 0
    /\ bribes = <<>>
    /\ ret = [cost |-> IntZero, err |-> ErrNil]

\* C7: when len(records) >= tau, CensorshipCost fails with "nil ValueWei",
\* returning no partial sum, if and only if one of the first tau records
\* lacks a value; a record without a value at index >= tau is harmless
C7_MissingValue ==
    (pc = "CensorshipCost" /\ Len(bribes) >= tau)
        => /\ (ret.err = Errorf("nil ValueWei")) <=> HasNilAmongFirst(bribes, tau)
           /\ HasNilAmongFirst(bribes, tau) => ret.cost = IntNil
           /\ ~HasNilAmongFirst(bribes, tau) => ret.err = ErrNil

\* a value precedes the missing one among the first tau records, and no
\* partial sum comes back
C7_Witness ==
    /\ pc = "CensorshipCost"
    /\ tau = 2
    /\ Len(bribes) = 3
    /\ bribes[1].ValueWei = IntPos(natOf(1000))
    /\ bribes[2].ValueWei = IntNil
    /\ ret = [cost |-> IntNil, err |-> Errorf("nil ValueWei")]

\* ------------------------------------------------------------------------
\* Specification SpecConc: one call of ComputeBuilderConcentration on any
\* record sequence and any topK
\* ------------------------------------------------------------------------

ConcBuilders == {"", "a", "b", "unknown"}

InitConc ==
    /\ bribes \in BribeSeqs({1}, {IntPos(natOf(1000))}, ConcBuilders)
    /\ tau = 0
    /\ topK \in (-1)..(MaxLen + 1)
    /\ successProb = F64Zero
    /\ bridgeTVL = FloatNil
    /\ args = NoArgs
    /\ rng = <<>>
    /\ fma = "none"
    /\ pc = "start"
    /\ ret = NoRet
    /\ NoFetcher

CallComputeBuilderConcentration ==
    /\ pc = "start"
    /\ \E stats \in SortedStats(BuilderCounts(bribes)) :
           ret' = ComputeBuilderConcentration(bribes, topK, stats)
    /\ pc' = "ComputeBuilderConcentration"
    /\ UNCHANGED <<bribes, tau, topK, successProb, bridgeTVL, args, rng, fma, fetcher>>

NextConc == CallComputeBuilderConcentration

SpecConc == InitConc /\ [][NextConc]_vars

\* ------------------------------------------------------------------------
\* Properties of ComputeBuilderConcentration
\* ------------------------------------------------------------------------

\* the builder identities of the records, an empty one counted as the
\* sentinel "unknown"
Identities(b) == {BuilderKey(b[i]) : i \in 1..Len(b)}

\* the number of records of the builders of S
BlocksOf(b, S) == Cardinality({i \in 1..Len(b) : BuilderKey(b[i]) \in S})

\* the sum of the n largest per-builder block counts over all records:
\* the most blocks any n builders hold together
LargestCounts(b, n) ==
    LET held == {BlocksOf(b, S) : S \in {T \in SUBSET Identities(b) : Cardinality(T) = n}}
    IN  CHOOSE m \in held : \A h \in held : h <= m

MinInt(x, y) == IF x < y THEN x ELSE y

\* C2: for non-empty records and k >= 1, alpha is the sum of the min(k, u)
\* largest per-builder block counts over all records divided by the number
\* of records, u being the number of unique builder identities
C2_TopKShare ==
    (pc = "ComputeBuilderConcentration" /\ Len(bribes) > 0 /\ topK >= 1)
        => /\ ret.err = ErrNil
           /\ ret.alpha =
                  f64Ratio(LargestCounts(bribes,
                               MinInt(topK, Cardinality(Identities(bribes)))),
                           Len(bribes))
           /\ topK >= Cardinality(Identities(bribes)) => ret.alpha = F64One

\* three builders with one block each, k = 2: alpha = 2/3
C2_Witness ==
    /\ pc = "ComputeBuilderConcentration"
    /\ Len(bribes) = 3
    /\ Cardinality(Identities(bribes)) = 3
    /\ topK = 2
    /\ ret.err = ErrNil
    /\ ret.alpha = f64Ratio(2, 3)
    /\ fltCmp(ret.alpha, F64One) < 0

ConcFailed(r) == r.alpha = F64Zero /\ r.stats = <<>>

\* C8 as stated: "empty bribes slice" for empty records and "topK must be at
\* least 1" for k < 1, no alpha and no ranking in either case, success for
\* non-empty records with k >= 1
C8_AsStated ==
    pc = "ComputeBuilderConcentration"
        => /\ Len(bribes) = 0 => (ret.err = Errorf("empty bribes slice") /\ ConcFailed(ret))
           /\ topK < 1 => (ret.err = Errorf("topK must be at least 1") /\ ConcFailed(ret))
           /\ (Len(bribes) > 0 /\ topK >= 1) => ret.err = ErrNil

\* C8, amended: the emptiness of the records is checked first, so k < 1 is
\* reported as "topK must be at least 1" only for non-empty records; no
\* alpha and no ranking come back in either case, and every non-empty record
\* set with k >= 1 succeeds
C8_EmptyFirst ==
    pc = "ComputeBuilderConcentration"
        => /\ Len(bribes) = 0 => (ret.err = Errorf("empty bribes slice") /\ ConcFailed(ret))
           /\ (Len(bribes) > 0 /\ topK < 1)
                  => (ret.err = Errorf("topK must be at least 1") /\ ConcFailed(ret))
           /\ (Len(bribes) > 0 /\ topK >= 1) => (ret.err = ErrNil /\ ret.stats # <<>>)

\* empty records with k = 0: the failure is "empty bribes slice"
C8_Witness ==
    /\ pc = "ComputeBuilderConcentration"
    /\ bribes = <<>>
    /\ topK = 0
    /\ ret.err = Errorf("empty bribes slice")
    /\ ConcFailed(ret)

\* ------------------------------------------------------------------------
\* Specification SpecEff: one call of EffectiveCensorshipCost
\* ------------------------------------------------------------------------

MaxTopK == 2

EffValues == {IntNil, IntPos(natOf(1000)), IntPos(MaxUint64)}

InitEff ==
    /\ bribes \in BribeSeqs({1}, EffValues, {"", "a"})
    /\ tau \in 0..(MaxLen + 1)
    /\ topK \in 0..MaxTopK
    /\ successProb = F64Zero
    /\ bridgeTVL = FloatNil
    /\ args = NoArgs
    /\ rng = <<>>
    /\ fma = "none"
    /\ pc = "start"
    /\ ret = NoRet
    /\ NoFetcher

CallEffectiveCensorshipCost ==
    /\ pc = "start"
    /\ \E stats \in SortedStats(BuilderCounts(bribes)) :
           ret' = EffectiveCensorshipCost(bribes, tau, topK, stats)
    /\ pc' = "EffectiveCensorshipCost"
    /\ UNCHANGED <<bribes, tau, topK, successProb, bridgeTVL, args, rng, fma, fetcher>>

NextEff == CallEffectiveCensorshipCost

SpecEff == InitEff /\ [][NextEff]_vars

\* ------------------------------------------------------------------------
\* Properties of EffectiveCensorshipCost
\* ------------------------------------------------------------------------

\* the float x is not negative and within a relative distance of
\* ulps * 2^(-bits) of the fraction num / den of two naturals
WithinRel(x, num, den, ulps, bits) ==
    LET sh == IF x.exp < 0 THEN -x.exp ELSE 0
        scaledX == natMul(natShl(x.mant, x.exp + sh), den)
        scaledQ == natShl(num, sh)
        dist == IF natCmp(scaledX, scaledQ) >= 0 THEN natSub(scaledX, scaledQ)
                ELSE natSub(scaledQ, scaledX)
    IN  /\ ~x.neg
        /\ natCmp(natShl(dist, bits), natMul(scaledQ, natOf(ulps))) <= 0

\* the blocks of the top min(k, u) builders over all records
TopBlocks(b, k) == LargestCounts(b, MinInt(k, Cardinality(Identities(b))))

EffSucceeds(b, t, k) ==
    /\ t <= Len(b)
    /\ ~HasNilAmongFirst(b, t)
    /\ Len(b) > 0
    /\ k >= 1

\* C3: the effective cost is (1 - alpha) * CensorshipCost(records, tau) with
\* alpha the concentration over ALL records: the product, rounded to the
\* precision of the cost, of the cost and the float64 discount 1 - alpha,
\* which lies within (n + 2) * 2^-53 of (n - s) / n times the exact sum of the
\* first tau values, s being the blocks of the top builders among all n records
C3_DiscountOverAllRecords ==
    (pc = "EffectiveCensorshipCost" /\ EffSucceeds(bribes, tau, topK))
        => LET n == Len(bribes)
               s == TopBlocks(bribes, topK)
               sum == ExactSum([i \in 1..tau |-> bribes[i].ValueWei.abs])
           IN  /\ ret.err = ErrNil
               /\ ret.alpha = f64Ratio(s, n)
               /\ ret.cost = Mul(SetInt(CensorshipCost(bribes, tau).cost),
                                 NewFloat(f64Sub(F64One, ret.alpha)))
               /\ WithinRel(ret.cost, natMul(sum, natOf(n - s)), natOf(n),
                            n + 2, F64Prec)

\* the first two records are of one builder, the third of another: with
\* tau = 2 and k = 1 the third record costs nothing but makes alpha 2/3
C3_Witness ==
    /\ pc = "EffectiveCensorshipCost"
    /\ Len(bribes) = 3
    /\ tau = 2
    /\ topK = 1
    /\ BuilderKey(bribes[1]) = BuilderKey(bribes[2])
    /\ BuilderKey(bribes[3]) # BuilderKey(bribes[1])
    /\ bribes[1].ValueWei = IntPos(MaxUint64)
    /\ bribes[3].ValueWei = IntNil
    /\ ret.err = ErrNil
    /\ ret.alpha = f64Ratio(2, 3)
    /\ fltSign(ret.cost) > 0

\* C9: EffectiveCensorshipCost fails exactly when CensorshipCost or
\* ComputeBuilderConcentration fails on the same arguments: for
\* tau > len(records), for a missing value among the first tau records, for
\* k < 1 and for empty records even with tau = 0; a failure returns no cost
\* and no alpha
C9_FailsWithEitherSubCall ==
    pc = "EffectiveCensorshipCost"
        => /\ (ret.err # ErrNil) <=>
                  \/ CensorshipCost(bribes, tau).err # ErrNil
                  \/ \E st \in SortedStats(BuilderCounts(bribes)) :
                         ComputeBuilderConcentration(bribes, topK, st).err # ErrNil
           /\ (ret.err = ErrNil) <=> EffSucceeds(bribes, tau, topK)
           /\ (ret.err # ErrNil) => (ret.cost = FloatNil /\ ret.alpha = F64Zero)
           /\ (ret.err = ErrNil) => ret.cost # FloatNil

\* empty records with tau = 0 and k = 1: the concentration fails
C9_Witness ==
    /\ pc = "EffectiveCensorshipCost"
    /\ bribes = <<>>
    /\ tau = 0
    /\ topK = 1
    /\ ret = [cost |-> FloatNil, alpha |-> F64Zero,
              err |-> Wrap("failed to compute concentration",
                           Errorf("empty bribes slice"))]

\* ------------------------------------------------------------------------
\* Specification SpecProfit: one call of AttackerProfit
\* ------------------------------------------------------------------------

ProbValues ==
    {f64Ratio(-1, 2), F64Zero, f64Ratio(3, 10), F64One, f64Ratio(3, 2)}

TVLValues ==
    {FloatNil, NewFloat(f64OfInt(-1)), NewFloat(F64Zero),
     NewFloat(f64OfInt(1000)), SetInt(IntPos(MaxUint64))}

\* the ProfitParams of a call
Params == [BridgeTVL |-> bridgeTVL, SuccessProbability |-> successProb,
           Tau |-> tau, TopK |-> topK]

ProfitValues == {IntNil, IntPos(MaxUint64)}

InitProfit ==
    /\ bribes \in BribeSeqs({1}, ProfitValues, {"", "a"})
    /\ tau \in 0..(MaxLen + 1)
    /\ topK \in 0..MaxTopK
    /\ successProb \in ProbValues
    /\ bridgeTVL \in TVLValues
    /\ args = NoArgs
    /\ rng = <<>>
    /\ fma = "none"
    /\ pc = "start"
    /\ ret = NoRet
    /\ NoFetcher

CallAttackerProfit ==
    /\ pc = "start"
    /\ \E stats \in SortedStats(BuilderCounts(bribes)) :
           ret' = AttackerProfit(bribes, Params, stats)
    /\ pc' = "AttackerProfit"
    /\ UNCHANGED <<bribes, tau, topK, successProb, bridgeTVL, args, rng, fma, fetcher>>

NextProfit == CallAttackerProfit

SpecProfit == InitProfit /\ [][NextProfit]_vars

\* ------------------------------------------------------------------------
\* Properties of AttackerProfit
\* ------------------------------------------------------------------------

fltAbs(x) == [x EXCEPT !.neg = FALSE]

\* x - y, exactly
ExactSub(x, y) ==
    fltSub(x, y, natBitLen(x.mant) + natBitLen(y.mant)
                 + (IF x.exp > y.exp THEN x.exp - y.exp ELSE y.exp - x.exp) + 2)

\* x * y, exactly
ExactMul(x, y) == fltMul(x, y, natBitLen(x.mant) + natBitLen(y.mant))

\* |x - y| <= |y| * 2^(-bits)
FltWithin(x, y, bits) ==
    LET d == ExactSub(x, y)
    IN  fltCmp(fltAbs([d EXCEPT !.exp = IF d.mant = <<>> THEN 0 ELSE @ + bits]),
               fltAbs(y)) <= 0

ValidProb(p) == fltSign(p) >= 0 /\ fltCmp(p, F64One) <= 0

ValidTVL(v) == v # FloatNil /\ fltSign(v) >= 0

\* the effective cost of the call, which no order of the ranking changes
EffOf(b, t, k) ==
    EffectiveCensorshipCost(b, t, k, CHOOSE st \in SortedStats(BuilderCounts(b)) : TRUE)

\* C4: for valid parameters on which the effective cost exists, AttackerProfit
\* returns expectedRevenue = successProbability * tvl (the product rounded to
\* the larger precision, within 2^-53 of the exact one), effectiveCost =
\* EffectiveCensorshipCost(records, tau, k), profit = expectedRevenue -
\* effectiveCost (negative exactly when the revenue is below the cost), and
\* echoes alpha, successProbability and tvl
C4_ProfitResult ==
    (/\ pc = "AttackerProfit"
     /\ ValidProb(successProb) /\ ValidTVL(bridgeTVL)
     /\ EffSucceeds(bribes, tau, topK))
        => LET eff == EffOf(bribes, tau, topK)
           IN  /\ ret.err = ErrNil
               /\ ret.res.ExpectedRevenue = Mul(NewFloat(successProb), bridgeTVL)
               /\ FltWithin(ret.res.ExpectedRevenue,
                            ExactMul(successProb, bridgeTVL), F64Prec)
               /\ ret.res.EffectiveCost = eff.cost
               /\ ret.res.Profit = Sub(ret.res.ExpectedRevenue, eff.cost)
               /\ FltWithin(ret.res.Profit,
                            ExactSub(ret.res.ExpectedRevenue, eff.cost), F64Prec)
               /\ fltSign(ret.res.Profit) = fltCmp(ret.res.ExpectedRevenue, eff.cost)
               /\ ret.res.Alpha = eff.alpha
               /\ ret.res.SuccessProb = successProb
               /\ ret.res.TVL = bridgeTVL

\* a revenue of 0.3 * 1000 below a cost of a third of 2 * (2^64 - 1): the
\* profit is negative
C4_Witness ==
    /\ pc = "AttackerProfit"
    /\ successProb = f64Ratio(3, 10)
    /\ bridgeTVL = NewFloat(f64OfInt(1000))
    /\ Len(bribes) = 3 /\ tau = 2 /\ topK = 1
    /\ ret.err = ErrNil
    /\ ret.res.Alpha = f64Ratio(2, 3)
    /\ fltSign(ret.res.ExpectedRevenue) > 0
    /\ fltSign(ret.res.Profit) < 0

InvalidParameterErrors ==
    {Errorf("invalid success probability"), Errorf("BridgeTVL cannot be nil"),
     Errorf("BridgeTVL cannot be negative")}

\* C10: AttackerProfit fails with one of its parameter errors and returns no
\* result when successProbability < 0 or > 1 or tvl is nil or negative,
\* whatever the records, tau and k are; successProbability = 0,
\* successProbability = 1 and tvl = 0 pass the validation, so the call then
\* fails only as the effective cost fails
C10_InvalidParameter ==
    pc = "AttackerProfit"
        => /\ (~ValidProb(successProb) \/ ~ValidTVL(bridgeTVL))
                  => (ret.err \in InvalidParameterErrors /\ ret.res = ProfitNil)
           /\ ~ValidProb(successProb) => ret.err = Errorf("invalid success probability")
           /\ (ValidProb(successProb) /\ ValidTVL(bridgeTVL))
                  => /\ ret.err \notin InvalidParameterErrors
                     /\ (ret.err = ErrNil) <=> EffSucceeds(bribes, tau, topK)
                     /\ (ret.err # ErrNil)
                            => ret.err = Wrap("failed to compute effective cost",
                                              EffOf(bribes, tau, topK).err)

\* a negative tvl with records that have no value and tau beyond them: the
\* failure names the tvl
C10_Witness ==
    /\ pc = "AttackerProfit"
    /\ successProb = F64One
    /\ bridgeTVL = NewFloat(f64OfInt(-1))
    /\ Len(bribes) = 1 /\ bribes[1].ValueWei = IntNil /\ tau = 2 /\ topK = 0
    /\ ret = [res |-> ProfitNil, err |-> Errorf("BridgeTVL cannot be negative")]

\* ------------------------------------------------------------------------
\* Specification SpecBreakeven: one call of FindBreakevenTVL and, when it
\* succeeds, a call of AttackerProfit with the threshold it returned as the
\* TVL and the same records, probability, tau and topK
\* ------------------------------------------------------------------------

BreakevenValues == {IntPos(natOf(1000)), IntPos(MaxUint64)}

InitBreakeven ==
    /\ bribes \in BribeSeqs({1}, BreakevenValues, {"", "a"})
    /\ tau \in 0..(MaxLen + 1)
    /\ topK \in 0..MaxTopK
    /\ successProb \in ProbValues
    /\ bridgeTVL = FloatNil
    /\ args = NoArgs
    /\ rng = <<>>
    /\ fma = "none"
    /\ pc = "start"
    /\ ret = NoRet
    /\ NoFetcher

CallFindBreakevenTVL ==
    /\ pc = "start"
    /\ \E stats \in SortedStats(BuilderCounts(bribes)) :
           ret' = FindBreakevenTVL(bribes, successProb, tau, topK, stats)
    /\ pc' = "FindBreakevenTVL"
    /\ UNCHANGED <<bribes, tau, topK, successProb, bridgeTVL, args, rng, fma, fetcher>>

CallAttackerProfitAtBreakeven ==
    /\ pc = "FindBreakevenTVL"
    /\ ret.err = ErrNil
    /\ bridgeTVL' = ret.breakeven
    /\ \E stats \in SortedStats(BuilderCounts(bribes)) :
           ret' = AttackerProfit(bribes, [Params EXCEPT !.BridgeTVL = ret.breakeven],
                                 stats)
    /\ pc' = "AttackerProfitAtBreakeven"
    /\ UNCHANGED <<bribes, tau, topK, successProb, args, rng, fma, fetcher>>

NextBreakeven == CallFindBreakevenTVL \/ CallAttackerProfitAtBreakeven

SpecBreakeven == InitBreakeven /\ [][NextBreakeven]_vars

\* ------------------------------------------------------------------------
\* Properties of FindBreakevenTVL
\* ------------------------------------------------------------------------

\* C5: when the effective cost exists and 0 < p <= 1, FindBreakevenTVL returns
\* the effective cost divided by p (the quotient rounded to the precision of
\* the cost, so that p times it is within 2^-(IntPrec - 1) of the cost), and
\* AttackerProfit at that TVL with the same records, p, tau and k succeeds
\* with a profit of 0 within a tolerance of 2^-(IntPrec - 2) of the cost
C5_BreakevenInverse ==
    /\ (/\ pc = "FindBreakevenTVL"
        /\ EffSucceeds(bribes, tau, topK)
        /\ fltSign(successProb) > 0 /\ ValidProb(successProb))
           => LET eff == EffOf(bribes, tau, topK)
              IN  /\ ret.err = ErrNil
                  /\ ret.alpha = eff.alpha
                  /\ ret.breakeven = Quo(eff.cost, NewFloat(successProb))
                  /\ FltWithin(ExactMul(ret.breakeven, successProb), eff.cost,
                               IntPrec - 1)
    /\ pc = "AttackerProfitAtBreakeven"
           => /\ ret.err = ErrNil
              /\ ret.res.TVL = bridgeTVL
              /\ ret.res.EffectiveCost = EffOf(bribes, tau, topK).cost
              /\ fltCmp(fltAbs([ret.res.Profit EXCEPT
                                   !.exp = IF ret.res.Profit.mant = <<>> THEN 0
                                           ELSE @ + IntPrec - 2]),
                        ret.res.EffectiveCost) <= 0

\* p = 0.3 and a cost that is no multiple of it: the profit at the threshold
\* is a rounding residue, not zero
C5_Witness ==
    /\ pc = "AttackerProfitAtBreakeven"
    /\ successProb = f64Ratio(3, 10)
    /\ fltSign(ret.res.EffectiveCost) > 0
    /\ fltSign(ret.res.Profit) # 0

\* C11: FindBreakevenTVL fails with its parameter error, returning no
\* threshold, for every successProbability <= 0 or > 1, so the division never
\* has a zero divisor; every successProbability in (0, 1] passes the check,
\* the call then failing only as the effective cost fails
C11_BreakevenProbability ==
    pc = "FindBreakevenTVL"
        => /\ (fltSign(successProb) <= 0 \/ ~ValidProb(successProb))
                  => ret = BreakevenFailed(Errorf("success probability must be in (0,1]"))
           /\ (fltSign(successProb) > 0 /\ ValidProb(successProb))
                  => /\ ret.err # Errorf("success probability must be in (0,1]")
                     /\ (ret.err = ErrNil) <=> EffSucceeds(bribes, tau, topK)
           /\ (ret.err = ErrNil) => fltSign(successProb) > 0

\* successProbability = 0, which AttackerProfit accepts, on records whose
\* effective cost exists
C11_Witness ==
    /\ pc = "FindBreakevenTVL"
    /\ successProb = F64Zero
    /\ EffSucceeds(bribes, tau, topK)
    /\ ValidateParams([Params EXCEPT !.BridgeTVL = NewFloat(F64Zero)]) = ErrNil
    /\ ret = BreakevenFailed(Errorf("success probability must be in (0,1]"))

\* ------------------------------------------------------------------------
\* Specification SpecAlpha: one call of ComputeBuilderConcentration, of
\* EffectiveCensorshipCost or of FindBreakevenTVL on the same arguments
\* ------------------------------------------------------------------------

InitAlpha ==
    /\ bribes \in BribeSeqs({1}, BreakevenValues, {"", "a"})
    /\ tau \in 0..(MaxLen + 1)
    /\ topK \in 0..MaxTopK
    /\ successProb \in ProbValues
    /\ bridgeTVL = FloatNil
    /\ args = NoArgs
    /\ rng = <<>>
    /\ fma = "none"
    /\ pc = "start"
    /\ ret = NoRet
    /\ NoFetcher

NextAlpha ==
    \/ CallComputeBuilderConcentration
    \/ CallEffectiveCensorshipCost
    \/ CallFindBreakevenTVL

SpecAlpha == InitAlpha /\ [][NextAlpha]_vars

InUnitInterval(x) == fltSign(x) >= 0 /\ fltCmp(x, F64One) <= 0

CoversAllBuilders(b, k) == k >= Cardinality(Identities(b))

\* C12: for non-empty records and k >= 1 the alpha of
\* ComputeBuilderConcentration, and the alpha of a successful
\* EffectiveCensorshipCost, lies in [0, 1] and is exactly 1 when k is at
\* least the number of unique builders (a monopoly with any k >= 1
\* included); the effective cost and the breakeven TVL are then 0
C12_AlphaBounds ==
    /\ (pc = "ComputeBuilderConcentration" /\ Len(bribes) > 0 /\ topK >= 1)
           => /\ ret.err = ErrNil
              /\ InUnitInterval(ret.alpha)
              /\ CoversAllBuilders(bribes, topK) => ret.alpha = F64One
    /\ (pc = "EffectiveCensorshipCost" /\ EffSucceeds(bribes, tau, topK))
           => /\ ret.err = ErrNil
              /\ InUnitInterval(ret.alpha)
              /\ CoversAllBuilders(bribes, topK)
                     => (ret.alpha = F64One /\ fltSign(ret.cost) = 0)
    /\ (/\ pc = "FindBreakevenTVL"
        /\ EffSucceeds(bribes, tau, topK)
        /\ fltSign(successProb) > 0 /\ ValidProb(successProb))
           => /\ ret.err = ErrNil
              /\ InUnitInterval(ret.alpha)
              /\ CoversAllBuilders(bribes, topK)
                     => (ret.alpha = F64One /\ fltSign(ret.breakeven) = 0)

\* a monopoly of three records with a positive raw cost and k = 2: alpha is
\* 1 and the breakeven TVL is 0
C12_Witness ==
    /\ pc = "FindBreakevenTVL"
    /\ Len(bribes) = 3 /\ tau = 3 /\ topK = 2
    /\ Cardinality(Identities(bribes)) = 1
    /\ successProb = f64Ratio(3, 10)
    /\ ret.err = ErrNil
    /\ ret.alpha = F64One
    /\ fltSign(ret.breakeven) = 0

\* ------------------------------------------------------------------------
\* Specification SpecEffTwice: EffectiveCensorshipCost called on the same
\* records and tau with topK and then with a topK at least as large
\* ------------------------------------------------------------------------

InitEffTwice ==
    /\ bribes \in BribeSeqs({1}, BreakevenValues, {"", "a", "b"})
    /\ tau \in 0..(MaxLen + 1)
    /\ topK \in 0..MaxTopK
    /\ successProb = F64Zero
    /\ bridgeTVL = FloatNil
    /\ args = NoArgs
    /\ rng = <<>>
    /\ fma = "none"
    /\ pc = "start"
    /\ ret = NoRet
    /\ NoFetcher

CallEffectiveCensorshipCostAgain ==
    /\ pc = "EffectiveCensorshipCost"
    /\ \E k2 \in topK..(MaxTopK + 1) :
           /\ topK' = k2
           /\ \E stats \in SortedStats(BuilderCounts(bribes)) :
                  ret' = [first |-> ret, firstTopK |-> topK,
                          second |-> EffectiveCensorshipCost(bribes, tau, k2, stats)]
    /\ pc' = "EffectiveCensorshipCostAgain"
    /\ UNCHANGED <<bribes, tau, successProb, bridgeTVL, args, rng, fma, fetcher>>

NextEffTwice == CallEffectiveCensorshipCost \/ CallEffectiveCensorshipCostAgain

SpecEffTwice == InitEffTwice /\ [][NextEffTwice]_vars

\* C13: for fixed records and tau, if k1 <= k2 and both calls succeed then
\* alpha(k1) <= alpha(k2) and the effective cost at k2 is at most the
\* effective cost at k1: a larger alpha never yields a larger effective cost
C13_MonotoneInTopK ==
    (/\ pc = "EffectiveCensorshipCostAgain"
     /\ ret.first.err = ErrNil
     /\ ret.second.err = ErrNil)
        => /\ ret.firstTopK <= topK
           /\ fltCmp(ret.first.alpha, ret.second.alpha) <= 0
           /\ fltCmp(ret.second.cost, ret.first.cost) <= 0
           /\ (fltCmp(ret.first.alpha, ret.second.alpha) < 0 /\ tau > 0)
                  => fltCmp(ret.second.cost, ret.first.cost) < 0

\* three builders with one block each, k = 1 then k = 2: alpha rises from
\* 1/3 to 2/3 and the effective cost falls
C13_Witness ==
    /\ pc = "EffectiveCensorshipCostAgain"
    /\ Cardinality(Identities(bribes)) = 3
    /\ tau = 2
    /\ ret.firstTopK = 1 /\ topK = 2
    /\ ret.first.alpha = f64Ratio(1, 3)
    /\ ret.second.alpha = f64Ratio(2, 3)
    /\ fltCmp(ret.second.cost, ret.first.cost) < 0

\* ------------------------------------------------------------------------
\* Specification SpecCostTwice: CensorshipCost called on the same records
\* with tau and then with a larger tau within the records
\* ------------------------------------------------------------------------

CostTwiceValues ==
    {IntNil, IntZero, IntPos(natOf(1000)), IntPos(MaxUint64),
     [nil |-> FALSE, neg |-> TRUE, abs |-> natOf(1000)]}

InitCostTwice ==
    /\ bribes \in BribeSeqs({1}, CostTwiceValues, {"a"})
    /\ tau \in 0..(MaxLen + 1)
    /\ topK = 1
    /\ successProb = F64Zero
    /\ bridgeTVL = FloatNil
    /\ args = NoArgs
    /\ rng = <<>>
    /\ fma = "none"
    /\ pc = "start"
    /\ ret = NoRet
    /\ NoFetcher

CallCensorshipCostAgain ==
    /\ pc = "CensorshipCost"
    /\ \E tau2 \in (tau + 1)..Len(bribes) :
           /\ tau' = tau2
           /\ ret' = [first |-> ret, firstTau |-> tau,
                      second |-> CensorshipCost(bribes, tau2)]
    /\ pc' = "CensorshipCostAgain"
    /\ UNCHANGED <<bribes, topK, successProb, bridgeTVL, args, rng, fma, fetcher>>

NextCostTwice == CallCensorshipCost \/ CallCensorshipCostAgain

SpecCostTwice == InitCostTwice /\ [][NextCostTwice]_vars

\* x.Cmp(y) of two integers: -1, 0, +1
IntCmp(x, y) ==
    IF x.neg # y.neg THEN (IF x.neg THEN -1 ELSE 1)
    ELSE IF x.neg THEN natCmp(y.abs, x.abs)
    ELSE natCmp(x.abs, y.abs)

NoNegativeValue(b) == \A i \in 1..Len(b) : b[i].ValueWei.nil \/ ~b[i].ValueWei.neg

\* C14: for fixed records whose values are all non-negative and
\* tau1 < tau2 <= len(records), the cost of tau2 slots is at least the cost
\* of tau1 slots (when both calls succeed)
C14_MonotoneInTau ==
    (/\ pc = "CensorshipCostAgain"
     /\ NoNegativeValue(bribes)
     /\ ret.first.err = ErrNil
     /\ ret.second.err = ErrNil)
        => /\ ret.firstTau < tau /\ tau <= Len(bribes)
           /\ IntCmp(ret.second.cost, ret.first.cost) >= 0

\* tau = 1 then tau = 3 over positive values: the cost grows
C14_Witness ==
    /\ pc = "CensorshipCostAgain"
    /\ NoNegativeValue(bribes)
    /\ ret.firstTau = 1 /\ tau = 3
    /\ ret.first.err = ErrNil /\ ret.second.err = ErrNil
    /\ bribes[2].ValueWei = IntZero
    /\ IntCmp(ret.second.cost, ret.first.cost) > 0

\* ------------------------------------------------------------------------
\* internal/model/bribe.go: SweepProbability
\* ------------------------------------------------------------------------

f64Add(x, y) == Only({fltAdd(a, b, F64Prec) : a \in {x}, b \in {y}})

f64Mul(x, y) == Only({fltMul(a, b, F64Prec) : a \in {x}, b \in {y}})

\* x*y + z rounded once, which a build may emit for the expression instead
\* of a rounded product followed by a rounded sum
f64MulAdd(x, y, z) ==
    Only({fltAdd(a, b, F64Prec) : a \in {fltMul(x, y, 2 * F64Prec)}, b \in {z}})

SweepNil == [nil |-> TRUE]

SweepFailed(err) == [res |-> SweepNil, err |-> err]

\* variant of the parameter checks that leaves maxP alone when steps = 1,
\* where it is not used
SweepValidateUsedOnly(minP, maxP, steps) ==
    IF steps < 1 THEN Errorf("steps must be at least 1")
    ELSE IF fltSign(minP) < 0 \/ fltCmp(minP, F64One) > 0
    THEN Errorf("minP must be in [0,1]")
    ELSE IF steps = 1 THEN ErrNil
    ELSE IF fltSign(maxP) < 0 \/ fltCmp(maxP, F64One) > 0
    THEN Errorf("maxP must be in [0,1]")
    ELSE IF fltCmp(minP, maxP) > 0
    THEN Errorf("minP must be <= maxP")
    ELSE ErrNil

\* the parameter checks of SweepProbability: the error, ErrNil if they pass
SweepValidate(minP, maxP, steps) ==
    IF steps < 1 THEN Errorf("steps must be at least 1")
    ELSE IF fltSign(minP) < 0 \/ fltCmp(minP, F64One) > 0
    THEN Errorf("minP must be in [0,1]")
    ELSE IF fltSign(maxP) < 0 \/ fltCmp(maxP, F64One) > 0
    THEN Errorf("maxP must be in [0,1]")
    ELSE IF fltCmp(minP, maxP) > 0
    THEN Errorf("minP must be <= maxP")
    ELSE ErrNil

\* variant of the sweep point that walks from maxP down to minP
SweepPointFromMax(sw, i) ==
    IF sw.fused THEN f64MulAdd(f64OfInt(-i), sw.stepSize, sw.maxP)
    ELSE f64Sub(sw.maxP, f64Mul(f64OfInt(i), sw.stepSize))

\* p := minP + float64(i)*stepSize
SweepPoint(sw, i) ==
    IF sw.fused THEN f64MulAdd(f64OfInt(i), sw.stepSize, sw.minP)
    ELSE f64Add(sw.minP, f64Mul(f64OfInt(i), sw.stepSize))

SweepParams(sw, p) ==
    [BridgeTVL |-> sw.tvl, SuccessProbability |-> p, Tau |-> sw.tau, TopK |-> sw.topK]

SweepResult(sw, results) ==
    [res |-> [Results |-> results, MinP |-> sw.minP, MaxP |-> sw.maxP,
              Steps |-> sw.steps],
     err |-> ErrNil]

\* the loop of SweepProbability from step i with the results so far, and
\* its body once AttackerProfit has returned r
RECURSIVE SweepLoop(_, _, _)
RECURSIVE SweepLoopBody(_, _, _, _)
SweepLoop(sw, i, results) ==
    IF i >= sw.steps THEN SweepResult(sw, results)
    ELSE SweepLoopBody(sw, i, results,
             AttackerProfit(sw.bribes, SweepParams(sw, SweepPoint(sw, i)), sw.stats))

SweepLoopBody(sw, i, results, r) ==
    IF r.err # ErrNil
    THEN SweepFailed(Wrap("failed at p", r.err))
    ELSE SweepLoop(sw, i + 1, Append(results, r.res))

\* the single step case once AttackerProfit has returned r
SweepSingle(sw, r) ==
    IF r.err # ErrNil THEN SweepFailed(r.err) ELSE SweepResult(sw, <<r.res>>)

\* SweepProbability once the parameters are validated
SweepProbabilityOf(sw) ==
    IF sw.steps = 1
    THEN SweepSingle(sw, AttackerProfit(sw.bribes, SweepParams(sw, sw.minP), sw.stats))
    ELSE SweepLoop([sw EXCEPT !.stepSize =
                        f64Div(f64Sub(sw.maxP, sw.minP), f64OfInt(sw.steps - 1))],
                   0, <<>>)

\* SweepProbability with the error invalid of the parameter checks
SweepProbabilityChecked(sw, invalid) ==
    IF invalid # ErrNil THEN SweepFailed(invalid) ELSE SweepProbabilityOf(sw)

\* SweepProbability, given the order stats the sort leaves and whether the
\* build fuses the multiplication and the addition of the sweep point
SweepProbability(b, tvl, t, k, minP, maxP, steps, stats, fused) ==
    SweepProbabilityChecked(
        [bribes |-> b, tvl |-> tvl, tau |-> t, topK |-> k, minP |-> minP,
         maxP |-> maxP, steps |-> steps, stepSize |-> F64Zero, stats |-> stats,
         fused |-> fused],
        SweepValidate(minP, maxP, steps))

\* ------------------------------------------------------------------------
\* Specification SpecSweep: one call of SweepProbability
\* ------------------------------------------------------------------------

\* most steps of a sweep
MaxSteps == 4

SweepProbValues ==
    {f64Ratio(-1, 2), F64Zero, f64Ratio(1, 24), f64Ratio(3, 10), F64One,
     f64Ratio(3, 2)}

SweepTVLValues == {FloatNil, NewFloat(F64Zero), NewFloat(f64OfInt(1000))}

InitSweep ==
    /\ bribes \in BribeSeqs({1}, {IntPos(natOf(1000))}, {"", "a"})
    /\ tau \in {1, 2}
    /\ topK \in {0, 1}
    /\ successProb = F64Zero
    /\ bridgeTVL \in SweepTVLValues
    /\ args \in [MinP : SweepProbValues, MaxP : SweepProbValues, Steps : 0..MaxSteps]
    /\ rng = <<>>
    /\ fma = "none"
    /\ pc = "start"
    /\ ret = NoRet
    /\ NoFetcher

CallSweepProbability ==
    /\ pc = "start"
    /\ \E stats \in SortedStats(BuilderCounts(bribes)), fused \in BOOLEAN :
           ret' = SweepProbability(bribes, bridgeTVL, tau, topK, args.MinP, args.MaxP,
                                   args.Steps, stats, fused)
    /\ pc' = "SweepProbability"
    /\ UNCHANGED <<bribes, tau, topK, successProb, bridgeTVL, args, rng, fma, fetcher>>

NextSweep == CallSweepProbability

SpecSweep == InitSweep /\ [][NextSweep]_vars

\* ------------------------------------------------------------------------
\* Properties of SweepProbability
\* ------------------------------------------------------------------------

\* the arguments of the sweep pass its checks and AttackerProfit succeeds on
\* the records, tau, topK and tvl for every probability in [0, 1]
SweepArgsValid ==
    /\ SweepValidate(args.MinP, args.MaxP, args.Steps) = ErrNil
    /\ ValidTVL(bridgeTVL)
    /\ EffSucceeds(bribes, tau, topK)

\* C15 as stated: for valid bounds and steps >= 1 SweepProbability returns
\* exactly steps results in evaluation order, the first at minP, the
\* probabilities not decreasing along the sequence and none beyond maxP
C15_AsStated ==
    (pc = "SweepProbability" /\ SweepArgsValid)
        => /\ ret.err = ErrNil
           /\ Len(ret.res.Results) = args.Steps
           /\ ret.res.Results[1].SuccessProb = args.MinP
           /\ \A i \in 1..(args.Steps - 1) :
                  fltCmp(ret.res.Results[i].SuccessProb,
                         ret.res.Results[i + 1].SuccessProb) <= 0
           /\ (args.Steps >= 2)
                  => fltCmp(ret.res.Results[args.Steps].SuccessProb, args.MaxP) <= 0

SweepParameterErrors ==
    {Errorf("steps must be at least 1"), Errorf("minP must be in [0,1]"),
     Errorf("maxP must be in [0,1]"), Errorf("minP must be <= maxP")}

SweepArgsRejected ==
    \/ args.Steps < 1
    \/ ~ValidProb(args.MinP)
    \/ ~ValidProb(args.MaxP)
    \/ fltCmp(args.MinP, args.MaxP) > 0

\* C16: SweepProbability fails with one of its parameter errors and returns
\* no results whenever steps < 1, minP or maxP lies outside [0,1] or
\* minP > maxP, whatever the records and the tvl are, also for steps = 1;
\* otherwise it fails with none of these errors
C16_SweepInvalidParameter ==
    pc = "SweepProbability"
        => /\ SweepArgsRejected
                  => (ret.err \in SweepParameterErrors /\ ret.res = SweepNil)
           /\ ~SweepArgsRejected => ret.err \notin SweepParameterErrors
           /\ (ret.err # ErrNil) => ret.res = SweepNil

\* steps = 1 with maxP = 1.5: maxP would not be used, and is rejected
C16_Witness ==
    /\ pc = "SweepProbability"
    /\ args.Steps = 1
    /\ args.MinP = f64Ratio(3, 10)
    /\ args.MaxP = f64Ratio(3, 2)
    /\ EffSucceeds(bribes, tau, topK)
    /\ ret = SweepFailed(Errorf("maxP must be in [0,1]"))

\* ------------------------------------------------------------------------
\* Specification SpecSweepProfit: one call of SweepProbability on records
\* whose cost is near 2^64 wei, with a tvl of 0, 1 or 1000 wei
\* ------------------------------------------------------------------------

SweepProfitProbValues == {F64Zero, f64Ratio(1, 24), f64Ratio(3, 10), F64One}

SweepProfitTVLValues ==
    {NewFloat(F64Zero), NewFloat(F64One), NewFloat(f64OfInt(1000))}

InitSweepProfit ==
    /\ bribes \in BribeSeqs({1}, {IntPos(MaxUint64)}, {"", "a"})
    /\ tau \in {1, 2}
    /\ topK = 1
    /\ successProb = F64Zero
    /\ bridgeTVL \in SweepProfitTVLValues
    /\ args \in [MinP : SweepProfitProbValues, MaxP : SweepProfitProbValues,
                 Steps : 1..MaxSteps]
    /\ rng = <<>>
    /\ fma = "none"
    /\ pc = "start"
    /\ ret = NoRet
    /\ NoFetcher

SpecSweepProfit == InitSweepProfit /\ [][NextSweep]_vars

\* the sweep of the call is one the profits are compared on: it succeeded,
\* with tvl > 0, minP < maxP and steps >= 2
SweepCompared ==
    /\ pc = "SweepProbability"
    /\ ret.err = ErrNil
    /\ fltSign(bridgeTVL) > 0
    /\ fltCmp(args.MinP, args.MaxP) < 0
    /\ args.Steps >= 2

\* the exact profit of a result, revenue - cost before rounding
ExactProfit(r) == ExactSub(r.ExpectedRevenue, r.EffectiveCost)

\* the revenues of two successive results differ by more than 2^-62 of the
\* larger exact profit, which the 64 bits or more of the profit resolve
Resolved(r1, r2) ==
    LET d == ExactSub(r2.ExpectedRevenue, r1.ExpectedRevenue)
        scaled == IF d.mant = <<>> THEN d ELSE [d EXCEPT !.exp = @ + (IntPrec - 2)]
    IN  /\ fltCmp(scaled, fltAbs(ExactProfit(r1))) > 0
        /\ fltCmp(scaled, fltAbs(ExactProfit(r2))) > 0

\* C17 as stated: for tvl > 0, minP < maxP and steps >= 2 the profits of a
\* sweep strictly increase along the result sequence
C17_AsStated ==
    SweepCompared
        => \A i \in 1..(Len(ret.res.Results) - 1) :
               fltCmp(ret.res.Results[i].Profit, ret.res.Results[i + 1].Profit) < 0

\* C17: for tvl > 0, minP < maxP and steps >= 2 the profits of a sweep never
\* decrease along the result sequence, and a profit is strictly greater than
\* the one before it whenever the two expected revenues differ by more than
\* 2^-62 of the larger exact profit (the rounding of the subtraction cannot
\* then merge them)
C17_ProfitsIncrease ==
    SweepCompared
        => \A i \in 1..(Len(ret.res.Results) - 1) :
               /\ fltCmp(ret.res.Results[i].Profit, ret.res.Results[i + 1].Profit) <= 0
               /\ Resolved(ret.res.Results[i], ret.res.Results[i + 1])
                      => fltCmp(ret.res.Results[i].Profit,
                                ret.res.Results[i + 1].Profit) < 0

\* a sweep of four points on a tvl of 1000 wei against a cost of 2^63 wei:
\* every step is resolved and the profits strictly increase
C17_Witness ==
    /\ SweepCompared
    /\ args.Steps = 4
    /\ Len(ret.res.Results) = 4
    /\ bridgeTVL = NewFloat(f64OfInt(1000))
    /\ fltSign(ret.res.Results[1].EffectiveCost) > 0
    /\ \A i \in 1..3 :
           /\ Resolved(ret.res.Results[i], ret.res.Results[i + 1])
           /\ fltCmp(ret.res.Results[i].Profit, ret.res.Results[i + 1].Profit) < 0

\* ------------------------------------------------------------------------
\* Specification SpecDiversity: ComputeBuilderConcentration, then
\* GetBuilderDiversity on the same records
\* ------------------------------------------------------------------------

CallGetBuilderDiversity ==
    /\ pc = "ComputeBuilderConcentration"
    /\ ret' = [conc |-> ret, diversity |-> GetBuilderDiversity(bribes)]
    /\ pc' = "GetBuilderDiversity"
    /\ UNCHANGED <<bribes, tau, topK, successProb, bridgeTVL, args, rng, fma, fetcher>>

NextDiversity == CallComputeBuilderConcentration \/ CallGetBuilderDiversity

SpecDiversity == InitConc /\ [][NextDiversity]_vars

\* the identity a pubkey stands for when the empty pubkey and the pubkey
\* "unknown" are one builder
Merged(pubkey) == IF pubkey \in {"", "unknown"} THEN "unknown" ELSE pubkey

MergedIdentities(b) == {Merged(b[i].BuilderPubkey) : i \in 1..Len(b)}

\* the number of records of the identities of S
MergedBlocks(b, S) == Cardinality({i \in 1..Len(b) : Merged(b[i].BuilderPubkey) \in S})

\* the most blocks any n identities hold together
MergedLargest(b, n) ==
    LET held == {MergedBlocks(b, S) :
                    S \in {T \in SUBSET MergedIdentities(b) : Cardinality(T) = n}}
    IN  CHOOSE m \in held : \A h \in held : h <= m

\* C18: the records with an empty builder identity count as records of the
\* one builder "unknown": GetBuilderDiversity returns the number of
\* identities so merged, and the ranking of ComputeBuilderConcentration has
\* one entry per merged identity, none for the empty pubkey, with the merged
\* block counts, alpha being the top-k share of the merged counts
C18_UnknownSentinel ==
    pc = "GetBuilderDiversity"
        => /\ ret.diversity = Cardinality(MergedIdentities(bribes))
           /\ ret.conc.err = ErrNil
                  => /\ Len(ret.conc.stats) = Cardinality(MergedIdentities(bribes))
                     /\ {ret.conc.stats[i].BuilderPubkey : i \in 1..Len(ret.conc.stats)}
                            = MergedIdentities(bribes)
                     /\ \A i \in 1..Len(ret.conc.stats) :
                            ret.conc.stats[i].BlockCount
                                = MergedBlocks(bribes, {ret.conc.stats[i].BuilderPubkey})
                     /\ ret.conc.alpha =
                            f64Ratio(MergedLargest(bribes,
                                         MinInt(topK, Cardinality(MergedIdentities(bribes)))),
                                     Len(bribes))

\* three records of the builders "", "unknown" and "a", k = 1: two builders,
\* "unknown" ranked first with two blocks, alpha = 2/3
C18_Witness ==
    /\ pc = "GetBuilderDiversity"
    /\ Len(bribes) = 3
    /\ {bribes[i].BuilderPubkey : i \in 1..3} = {"", "unknown", "a"}
    /\ topK = 1
    /\ ret.diversity = 2
    /\ ret.conc.err = ErrNil
    /\ ret.conc.stats[1] = [BuilderPubkey |-> "unknown", BlockCount |-> 2]
    /\ ret.conc.alpha = f64Ratio(2, 3)

\* ------------------------------------------------------------------------
\* float64 helpers of the analysis package: math.Sqrt, math.Floor, math.Ceil
\* ------------------------------------------------------------------------

\* floor(sqrt(x)) of a limb
limbSqrt(x) == CHOOSE r \in 0..(2^(LimbBits \div 2)) : r * r <= x /\ x < (r + 1) * (r + 1)

\* a number above sqrt(a): from the root of the top limb when the limbs below
\* it pair up, a power of two otherwise
natSqrtStart(a) ==
    IF Len(a) % 2 = 1
    THEN natShl(natOf(limbSqrt(a[Len(a)]) + 1), LimbBits * ((Len(a) - 1) \div 2))
    ELSE natShl(natOf(1), (natBitLen(a) + 1) \div 2)

\* floor(sqrt(a)) by Newton's iteration from a start above the root
RECURSIVE natSqrtLoop(_, _)
RECURSIVE natSqrtNext(_, _, _)
natSqrtLoop(a, x) ==
    Only({natSqrtNext(a, x, y) : y \in {natShr(natAdd(x, natDivMod(a, x)[1]), 1)}})

natSqrtNext(a, x, y) == IF natCmp(y, x) >= 0 THEN x ELSE natSqrtLoop(a, y)

natSqrt(a) == IF a = <<>> THEN <<>> ELSE natSqrtLoop(a, natSqrtStart(a))

\* the square root of m * 4^e, r being floor(sqrt(m)) with more than 53
\* bits: r and a sticky bit for the remainder, rounded to float64
f64SqrtOf(m, e, r) ==
    fltRound(FALSE,
             natAdd(natShl(r, 1), IF natMul(r, r) = m THEN <<>> ELSE natOf(1)),
             e - 1, F64Prec)

\* the mantissa of x shifted left by s, an s that makes the exponent even
\* and the shifted mantissa 2 * 53 + 1 or 2 * 53 + 2 bits long, so that the
\* root has a bit more than the 53 it is rounded to
f64SqrtShifted(x, s) ==
    Only({f64SqrtOf(natShl(x.mant, s), (x.exp - s) \div 2, r) :
             r \in {natSqrt(natShl(x.mant, s))}})

\* math.Sqrt(x) for x >= 0
f64Sqrt(x) ==
    IF x.mant = <<>> THEN x
    ELSE f64SqrtShifted(x, (2 * F64Prec + 2 - natBitLen(x.mant))
                               - ((x.exp - (2 * F64Prec + 2 - natBitLen(x.mant))) % 2))

\* a small nat as an integer
natToInt(a) == Limb(a, 1) + Base * Limb(a, 2)

\* int(math.Floor(x)) and int(math.Ceil(x)) for a small x >= 0
f64Floor(x) ==
    IF x.exp >= 0 THEN natToInt(natShl(x.mant, x.exp))
    ELSE natToInt(natShr(x.mant, -x.exp))

f64Ceil(x) == IF x.exp >= 0 THEN f64Floor(x) ELSE f64Floor(x) + 1

\* ------------------------------------------------------------------------
\* analysis: mean, stdDev, sortFloat64Slice, percentile and
\* SimulateAttackOutcomes.  The multiply-adds the code writes may be fused
\* by the build: fma is "none" when each operation is rounded, "first" or
\* "second" when the build fuses, naming the product of a*b + c*d it fuses
\* ------------------------------------------------------------------------

FMAChoices == {"none", "first", "second"}

\* sum += v over values[i..]
RECURSIVE meanLoop(_, _, _)
meanLoop(values, i, sum) ==
    IF i > Len(values) THEN sum
    ELSE meanLoop(values, i + 1, f64Add(sum, values[i]))

mean(values) ==
    IF Len(values) = 0 THEN F64Zero
    ELSE f64Div(meanLoop(values, 1, F64Zero), f64OfInt(Len(values)))

\* variance += diff * diff
stdDevAdd(variance, diff, choice) ==
    IF choice = "none" THEN f64Add(variance, f64Mul(diff, diff))
    ELSE f64MulAdd(diff, diff, variance)

RECURSIVE stdDevLoop(_, _, _, _, _)
stdDevLoop(values, m, i, variance, choice) ==
    IF i > Len(values) THEN variance
    ELSE stdDevLoop(values, m, i + 1,
                    stdDevAdd(variance, f64Sub(values[i], m), choice), choice)

stdDev(values, m, choice) ==
    IF Len(values) = 0 THEN F64Zero
    ELSE Only({f64Sqrt(v) :
                  v \in {f64Div(stdDevLoop(values, m, 1, F64Zero, choice),
                                f64OfInt(Len(values)))}})

\* if data[j] > data[j+1] { swap }, j counted from 1
sortSwap(data, j) ==
    IF fltCmp(data[j], data[j + 1]) > 0
    THEN [data EXCEPT ![j] = data[j + 1], ![j + 1] = data[j]]
    ELSE data

\* the inner loop of pass i from j, and the passes from i (both from 0)
RECURSIVE sortInner(_, _, _)
sortInner(data, i, j) ==
    IF j >= Len(data) - i - 1 THEN data
    ELSE Only({sortInner(d, i, j + 1) : d \in {sortSwap(data, j + 1)}})

RECURSIVE sortOuter(_, _)
sortOuter(data, i) ==
    IF i >= Len(data) - 1 THEN data
    ELSE Only({sortOuter(d, i + 1) : d \in {sortInner(data, i, 0)}})

sortFloat64Slice(data) == sortOuter(data, 0)

\* sortedData[lower]*(1-weight) + sortedData[upper]*weight
percentileMix(lo, hi, weight, choice) ==
    IF choice = "none"
    THEN f64Add(f64Mul(lo, f64Sub(F64One, weight)), f64Mul(hi, weight))
    ELSE IF choice = "first"
    THEN f64MulAdd(lo, f64Sub(F64One, weight), f64Mul(hi, weight))
    ELSE f64MulAdd(hi, weight, f64Mul(lo, f64Sub(F64One, weight)))

\* percentile once index, lower and upper are computed
percentileAt(sortedData, index, lower, upper, choice) ==
    IF lower = upper THEN sortedData[lower + 1]
    ELSE percentileMix(sortedData[lower + 1], sortedData[upper + 1],
                       f64Sub(index, f64OfInt(lower)), choice)

percentileIndex(sortedData, index, choice) ==
    percentileAt(sortedData, index, f64Floor(index), f64Ceil(index), choice)

\* percentile(sortedData, p) for an integer p
percentile(sortedData, p, choice) ==
    IF Len(sortedData) = 0 THEN F64Zero
    ELSE Only({percentileIndex(sortedData, index, choice) :
                  index \in {f64Mul(f64Div(f64OfInt(p), f64OfInt(100)),
                                    f64OfInt(Len(sortedData) - 1))}})

\* a run time panic of the call
Panic(msg) == [panic |-> msg]

\* the trial drawing draw counts as profitable: rand.Float64() < p
SimulateCounts(tvl, costUSD, p, draw) == fltCmp(draw, p) < 0

\* profits[i] of the trial drawing draw
SimulateProfit(tvl, costUSD, p, draw) ==
    f64Sub(f64Mul(IF fltCmp(draw, p) < 0 THEN F64One ELSE F64Zero, tvl), costUSD)

\* the MonteCarloResult of the profits, their mean m and their sorted copy
SimulateResult(profits, m, sortedProfits, profitableCount, choice) ==
    [ExpectedProfit |-> m,
     ProfitStdDev |-> stdDev(profits, m, choice),
     ProbabilityProfitable |-> f64Div(f64OfInt(profitableCount), f64OfInt(Len(profits))),
     ValueAtRisk95 |-> percentile(sortedProfits, 5, choice),
     MedianProfit |-> percentile(sortedProfits, 50, choice),
     MaxProfit |-> sortedProfits[Len(sortedProfits)],
     MaxLoss |-> sortedProfits[1]]

SimulateStatistics(profits, profitableCount, choice) ==
    Only({SimulateResult(profits, m, sortedProfits, profitableCount, choice) :
             m \in {mean(profits)}, sortedProfits \in {sortFloat64Slice(profits)}})

\* SimulateAttackOutcomes with censorshipCostUSD computed, draws being the
\* values rand.Float64() returns to the loop
SimulateAttackOutcomesOf(costUSD, tvl, p, n, draws, choice) ==
    IF n < 0 THEN Panic("makeslice: len out of range")
    ELSE IF n = 0 THEN Panic("index out of range [-1]")
    ELSE Only({SimulateStatistics(
                      profits,
                      Cardinality({i \in 1..n : SimulateCounts(tvl, costUSD, p, draws[i])}),
                      choice) :
                  profits \in {[i \in 1..n |-> SimulateProfit(tvl, costUSD, p, draws[i])]}})

SimulateAttackOutcomes(censorshipCostETH, bridgeTVLUSD, ethPriceUSD, successProbability, numSimulations, draws, choice) ==
    Only({SimulateAttackOutcomesOf(censorshipCostUSD, bridgeTVLUSD, successProbability,
                                   numSimulations, draws, choice) :
             censorshipCostUSD \in {f64Mul(censorshipCostETH, ethPriceUSD)}})

\* ------------------------------------------------------------------------
\* Specification SpecSimulate: two calls of SimulateAttackOutcomes with the
\* same arguments in one process.  rng is the process-wide source of
\* math/rand: the stream of values it returns and how many were taken
\* ------------------------------------------------------------------------

\* most trials of a simulation
MaxSims == 3

SimCostValues == {F64Zero, F64One}

SimTVLValues == {f64OfInt(1000), f64OfInt(3000)}

SimPriceValues == {f64OfInt(2000)}

SimProbValues == {F64Zero, f64Ratio(1, 2), F64One}

DrawValues == {f64Ratio(1, 4), f64Ratio(3, 4)}

InitSimulate ==
    /\ bribes = <<>>
    /\ tau = 0
    /\ topK = 0
    /\ successProb = F64Zero
    /\ bridgeTVL = FloatNil
    /\ args \in [Cost : SimCostValues, TVL : SimTVLValues, Price : SimPriceValues,
                 P : SimProbValues, N : 0..MaxSims]
    /\ rng \in [stream : [1..(2 * MaxSims) -> DrawValues], taken : {0}]
    /\ fma \in FMAChoices
    /\ pc = "start"
    /\ ret = NoRet
    /\ NoFetcher

\* the values the source returns to a call that makes n draws
Draws(n) == [i \in 1..n |-> rng.stream[rng.taken + i]]

Taken(n) == [rng EXCEPT !.taken = @ + (IF n > 0 THEN n ELSE 0)]

CallSimulateAttackOutcomes ==
    /\ pc = "start"
    /\ ret' = SimulateAttackOutcomes(args.Cost, args.TVL, args.Price, args.P, args.N,
                                     Draws(args.N), fma)
    /\ rng' = Taken(args.N)
    /\ pc' = "SimulateAttackOutcomes"
    /\ UNCHANGED <<bribes, tau, topK, successProb, bridgeTVL, args, fma, fetcher>>

CallSimulateAttackOutcomesAgain ==
    /\ pc = "SimulateAttackOutcomes"
    /\ ret # Panic("index out of range [-1]")
    /\ ret' = [first |-> ret,
               second |-> SimulateAttackOutcomes(args.Cost, args.TVL, args.Price,
                                                 args.P, args.N, Draws(args.N), fma)]
    /\ rng' = Taken(args.N)
    /\ pc' = "SimulateAttackOutcomesAgain"
    /\ UNCHANGED <<bribes, tau, topK, successProb, bridgeTVL, args, fma, fetcher>>

NextSimulate == CallSimulateAttackOutcomes \/ CallSimulateAttackOutcomesAgain

SpecSimulate == InitSimulate /\ [][NextSimulate]_vars

\* ------------------------------------------------------------------------
\* Properties of SimulateAttackOutcomes
\* ------------------------------------------------------------------------

\* the cost of the run in USD, and the profit of the trial that took the
\* i-th value of the stream: success * tvl - cost
RunCost == f64Mul(args.Cost, args.Price)

TrialProfit(i) ==
    IF fltCmp(rng.stream[i], args.P) < 0 THEN f64Sub(args.TVL, RunCost)
    ELSE fltNeg(RunCost)

\* C19 as stated: the profitable fraction reported is the number of trials
\* of the run whose profit is strictly positive divided by n, and 0 when
\* tvl <= cost
C19_AsStated ==
    (pc = "SimulateAttackOutcomes" /\ args.N >= 1)
        => /\ ret.ProbabilityProfitable =
                  f64Ratio(Cardinality({i \in 1..args.N : fltSign(TrialProfit(i)) > 0}),
                           args.N)
           /\ fltCmp(args.TVL, RunCost) <= 0 => ret.ProbabilityProfitable = F64Zero

\* C20 as stated: two calls of SimulateAttackOutcomes with the same
\* arguments in one process return the same result
C20_AsStated ==
    pc = "SimulateAttackOutcomesAgain" => ret.first = ret.second

\* ------------------------------------------------------------------------
\* analysis (Statistics): ComputeSummary, ComputeRollingStats and
\* ComputeConcentrationTrends over the records given to NewStatistics
\* ------------------------------------------------------------------------

\* big.NewInt(1e18)
WeiPerEth == IntPos(natMul(natOf(1000000000), natOf(1000000000)))

\* x.Float64(): the big.Float x rounded to the nearest float64
Float64(x) == fltRound(x.neg, x.mant, x.exp, F64Prec)

\* the float64 stored for one record: ValueWei / 1e18, and 0 (the value make
\* gave the element) when ValueWei is nil
ethVal(bribe) ==
    IF bribe.ValueWei = IntNil THEN F64Zero
    ELSE Float64(Quo(SetInt(bribe.ValueWei), SetInt(WeiPerEth)))

\* values[j] for the records of window
valuesETH(window) == [j \in 1..Len(window) |-> ethVal(window[j])]

maxFloat64(values) ==
    IF Len(values) = 0 THEN F64Zero
    ELSE CHOOSE v \in {values[j] : j \in 1..Len(values)} :
             \A j \in 1..Len(values) : fltCmp(values[j], v) <= 0

minFloat64(values) ==
    IF Len(values) = 0 THEN F64Zero
    ELSE CHOOSE v \in {values[j] : j \in 1..Len(values)} :
             \A j \in 1..Len(values) : fltCmp(values[j], v) >= 0

\* s.bribes[i-windowSize+1 : i+1], i counted from 0
WindowAtFirst(b, i, windowSize) == SubSeq(b, 1, windowSize)

WindowAt(b, i, windowSize) == SubSeq(b, i - windowSize + 2, i + 1)

\* the RollingStatistics of one window, labelled slot
RollingStat(values, slot, choice) ==
    Only({[Slot |-> slot,
           MeanETH |-> m,
           StdDevETH |-> stdDev(values, m, choice),
           MaxETH |-> maxFloat64(values),
           MinETH |-> minFloat64(values)] : m \in {mean(values)}})

\* the body of the loop for index i (from 0)
RollingStatAt(b, i, windowSize, choice) ==
    Only({RollingStat(values, b[i + 1].Slot, choice) :
             values \in {valuesETH(WindowAt(b, i, windowSize))}})

\* ComputeRollingStats(windowSize) on the records b; a window size of 0 reads
\* s.bribes[-1]
ComputeRollingStats(b, windowSize, choice) ==
    IF Len(b) < windowSize THEN <<>>
    ELSE IF windowSize < 1 THEN Panic("index out of range [-1]")
    ELSE [n \in 1..(Len(b) - windowSize + 1) |->
              RollingStatAt(b, windowSize + n - 2, windowSize, choice)]

\* ------------------------------------------------------------------------
\* Specification SpecRolling: NewStatistics(bribes) followed by one call of
\* ComputeRollingStats
\* ------------------------------------------------------------------------

\* 1.3 ETH and 3 ETH in wei
Wei13 == IntPos(natMul(natOf(1300000000), natOf(1000000000)))

Wei30 == IntPos(natMul(natOf(3), WeiPerEth.abs))

StatRecords ==
    {[Slot |-> 10, ValueWei |-> IntNil, BuilderPubkey |-> ""],
     [Slot |-> 20, ValueWei |-> Wei13, BuilderPubkey |-> "unknown"],
     [Slot |-> 30, ValueWei |-> Wei30, BuilderPubkey |-> "a"]}

InitRolling ==
    /\ bribes \in UNION {[1..n -> StatRecords] : n \in 0..MaxLen}
    /\ tau = 0
    /\ topK = 0
    /\ successProb = F64Zero
    /\ bridgeTVL = FloatNil
    /\ args \in [windowSize : 0..(MaxLen + 1)]
    /\ rng = <<>>
    /\ fma \in {"none", "first"}
    /\ pc = "start"
    /\ ret = NoRet
    /\ NoFetcher

CallComputeRollingStats ==
    /\ pc = "start"
    /\ ret' = ComputeRollingStats(bribes, args.windowSize, fma)
    /\ pc' = "ComputeRollingStats"
    /\ UNCHANGED <<bribes, tau, topK, successProb, bridgeTVL, args, rng, fma, fetcher>>

NextRolling == CallComputeRollingStats

SpecRolling == InitRolling /\ [][NextRolling]_vars

\* ------------------------------------------------------------------------
\* Properties of ComputeRollingStats
\* ------------------------------------------------------------------------

\* the values of the windowSize records from the j-th on (j from 1)
WindowValues(j) == [k \in 1..args.windowSize |-> ethVal(bribes[j + k - 1])]

\* v is the greatest (sign 1) or least (sign -1) of values
Extreme(v, values, sign) ==
    /\ \E k \in 1..Len(values) : values[k] = v
    /\ \A k \in 1..Len(values) : sign * fltCmp(values[k], v) <= 0

\* C21: for 1 <= windowSize <= len(records), ComputeRollingStats returns
\* len(records) - windowSize + 1 aggregates in record order; the j-th is the
\* mean, deviation, maximum and minimum of the records j .. j+windowSize-1 and
\* carries the slot of the last of them; for len(records) < windowSize the
\* result is empty
C21_RollingWindows ==
    pc = "ComputeRollingStats" =>
        /\ Len(bribes) < args.windowSize => ret = <<>>
        /\ (1 <= args.windowSize /\ args.windowSize <= Len(bribes)) =>
              /\ Len(ret) = Len(bribes) - args.windowSize + 1
              /\ \A j \in 1..Len(ret) :
                    LET values == WindowValues(j)
                    IN  /\ ret[j].Slot = bribes[j + args.windowSize - 1].Slot
                        /\ Extreme(ret[j].MaxETH, values, 1)
                        /\ Extreme(ret[j].MinETH, values, -1)
                        /\ ret[j].MeanETH = mean(values)
                        /\ ret[j].StdDevETH = stdDev(values, ret[j].MeanETH, fma)

\* three records of three different values, windows of two: two aggregates
C21_Witness ==
    /\ pc = "ComputeRollingStats"
    /\ Len(bribes) = 3
    /\ args.windowSize = 2
    /\ Len(ret) = 2
    /\ bribes[1].Slot # bribes[2].Slot
    /\ bribes[2].Slot # bribes[3].Slot
    /\ ret[1].MaxETH # ret[2].MaxETH
    /\ ret[1].Slot = bribes[2].Slot
    /\ ret[2].Slot = bribes[3].Slot

\* ------------------------------------------------------------------------
\* ComputeSummary
\* ------------------------------------------------------------------------

\* sort.Float64s(valuesETH): the values in ascending order
Float64s(values) == sortFloat64Slice(values)

\* Summary{}
SummaryZero ==
    [Count |-> 0, MeanETH |-> F64Zero, MedianETH |-> F64Zero, StdDevETH |-> F64Zero,
     MinETH |-> F64Zero, MaxETH |-> F64Zero, P25ETH |-> F64Zero, P75ETH |-> F64Zero,
     P95ETH |-> F64Zero, P99ETH |-> F64Zero, TotalETH |-> F64Zero]

\* the summary of the sorted values, sum being their sum
SummaryOf(sorted, sum, choice) ==
    Only({[Count |-> Len(sorted),
           MeanETH |-> m,
           MedianETH |-> percentile(sorted, 50, choice),
           StdDevETH |-> stdDev(sorted, m, choice),
           MinETH |-> sorted[1],
           MaxETH |-> sorted[Len(sorted)],
           P25ETH |-> percentile(sorted, 25, choice),
           P75ETH |-> percentile(sorted, 75, choice),
           P95ETH |-> percentile(sorted, 95, choice),
           P99ETH |-> percentile(sorted, 99, choice),
           TotalETH |-> sum] : m \in {f64Div(sum, f64OfInt(Len(sorted)))}})

ComputeSummary(b, choice) ==
    IF Len(b) = 0 THEN SummaryZero
    ELSE Only({Only({SummaryOf(sorted, sum, choice) :
                        sum \in {meanLoop(sorted, 1, F64Zero)}}) :
                  sorted \in {Float64s(valuesETH(b))}})

\* ------------------------------------------------------------------------
\* Specification SpecSummary: NewStatistics(bribes) followed by one call of
\* ComputeSummary
\* ------------------------------------------------------------------------

InitSummary ==
    /\ bribes \in UNION {[1..n -> StatRecords] : n \in 0..MaxLen}
    /\ tau = 0
    /\ topK = 0
    /\ successProb = F64Zero
    /\ bridgeTVL = FloatNil
    /\ args = NoArgs
    /\ rng = <<>>
    /\ fma \in FMAChoices
    /\ pc = "start"
    /\ ret = NoRet
    /\ NoFetcher

CallComputeSummary ==
    /\ pc = "start"
    /\ ret' = ComputeSummary(bribes, fma)
    /\ pc' = "ComputeSummary"
    /\ UNCHANGED <<bribes, tau, topK, successProb, bridgeTVL, args, rng, fma, fetcher>>

NextSummary == CallComputeSummary

SpecSummary == InitSummary /\ [][NextSummary]_vars

\* ------------------------------------------------------------------------
\* Properties of ComputeSummary
\* ------------------------------------------------------------------------

\* x <= y
fltLeq(x, y) == fltCmp(x, y) <= 0

\* C22: the percentiles of a non-empty record set are ordered between the
\* least and the greatest value, min <= P25 <= median <= P75 <= P95 <= P99
\* <= max, and all equal the single value when there is one record
C22_AsStated ==
    (pc = "ComputeSummary" /\ Len(bribes) >= 1) =>
        /\ fltLeq(ret.MinETH, ret.P25ETH)
        /\ fltLeq(ret.P25ETH, ret.MedianETH)
        /\ fltLeq(ret.MedianETH, ret.P75ETH)
        /\ fltLeq(ret.P75ETH, ret.P95ETH)
        /\ fltLeq(ret.P95ETH, ret.P99ETH)
        /\ fltLeq(ret.P99ETH, ret.MaxETH)
        /\ Len(bribes) = 1 =>
              {ret.P25ETH, ret.MedianETH, ret.P75ETH, ret.P95ETH, ret.P99ETH}
                  = {ethVal(bribes[1])}

\* ------------------------------------------------------------------------
\* float64 operations whose operands or result may be NaN or an infinity
\* (a division by zero does not panic for floating-point operands)
\* ------------------------------------------------------------------------

F64NaN == [nan |-> TRUE]

F64Inf(neg) == [inf |-> TRUE, neg |-> neg]

IsNaN(x) == "nan" \in DOMAIN x

IsInf(x) == "inf" \in DOMAIN x

IsFinite(x) == ~IsNaN(x) /\ ~IsInf(x)

\* x / y
ieeeDiv(x, y) ==
    IF IsNaN(x) \/ IsNaN(y) THEN F64NaN
    ELSE IF IsInf(x) THEN (IF IsInf(y) THEN F64NaN ELSE F64Inf(x.neg # y.neg))
    ELSE IF IsInf(y) THEN F64Zero
    ELSE IF y.mant = <<>> THEN (IF x.mant = <<>> THEN F64NaN ELSE F64Inf(x.neg # y.neg))
    ELSE f64Div(x, y)

\* x * y
ieeeMul(x, y) ==
    IF IsNaN(x) \/ IsNaN(y) THEN F64NaN
    ELSE IF IsInf(x) \/ IsInf(y)
    THEN (IF (IsFinite(x) /\ x.mant = <<>>) \/ (IsFinite(y) /\ y.mant = <<>>)
          THEN F64NaN ELSE F64Inf(x.neg # y.neg))
    ELSE f64Mul(x, y)

\* x + y
ieeeAdd(x, y) ==
    IF IsNaN(x) \/ IsNaN(y) THEN F64NaN
    ELSE IF IsInf(x) THEN (IF IsInf(y) /\ x.neg # y.neg THEN F64NaN ELSE x)
    ELSE IF IsInf(y) THEN y
    ELSE f64Add(x, y)

\* -x
ieeeNeg(x) ==
    IF IsNaN(x) THEN x
    ELSE IF IsInf(x) THEN F64Inf(~x.neg)
    ELSE fltNeg(x)

\* x*y + z, in one rounding when the build fuses the two operations
ieeeMulAdd(x, y, z, fused) ==
    IF fused /\ IsFinite(x) /\ IsFinite(y) /\ IsFinite(z) THEN f64MulAdd(x, y, z)
    ELSE ieeeAdd(ieeeMul(x, y), z)

\* ------------------------------------------------------------------------
\* analysis: ComputeProfitabilityMatrix
\* ------------------------------------------------------------------------

\* min + float64(i)*step
MatrixCoordinate(min, i, step, fused) == ieeeMulAdd(f64OfInt(i), step, min, fused)

\* the point appended for tvl and prob
ProfitabilityPoint(tvl, prob, censorshipCostUSD, fused) ==
    [TVLUSD |-> tvl,
     SuccessProbability |-> prob,
     ExpectedProfitUSD |-> ieeeMulAdd(prob, tvl, ieeeNeg(censorshipCostUSD), fused)]

\* the points of the two loops, the inner one over the probabilities
MatrixPoints(costUSD, tvls, probs, fused) ==
    [n \in 1..(Len(tvls) * Len(probs)) |->
        ProfitabilityPoint(tvls[((n - 1) \div Len(probs)) + 1],
                           probs[((n - 1) % Len(probs)) + 1], costUSD, fused)]

MatrixAxis(min, max, steps, fused) ==
    Only({[i \in 1..steps |-> MatrixCoordinate(min, i - 1, step, fused)] :
             step \in {ieeeDiv(f64Sub(max, min), f64OfInt(steps - 1))}})

ComputeProfitabilityMatrix(censorshipCostETH, ethPriceUSD, tvlMin, tvlMax, tvlSteps, probMin, probMax, probSteps, fused) ==
    IF tvlSteps * probSteps < 0 THEN Panic("makeslice: cap out of range")
    ELSE IF tvlSteps < 1 \/ probSteps < 1 THEN <<>>
    ELSE Only({MatrixPoints(f64Mul(censorshipCostETH, ethPriceUSD), tvls, probs, fused) :
                  tvls \in {MatrixAxis(tvlMin, tvlMax, tvlSteps, fused)},
                  probs \in {MatrixAxis(probMin, probMax, probSteps, fused)}})

\* ------------------------------------------------------------------------
\* Specification SpecMatrix: one call of ComputeProfitabilityMatrix
\* ------------------------------------------------------------------------

MatrixTVLValues == {f64OfInt(1000), f64OfInt(3000)}

MatrixProbValues == {F64Zero, f64Ratio(1, 2), F64One}

InitMatrix ==
    /\ bribes = <<>>
    /\ tau = 0
    /\ topK = 0
    /\ successProb = F64Zero
    /\ bridgeTVL = FloatNil
    /\ args \in [Cost : {F64One}, Price : {f64OfInt(2000)},
                 tvlMin : MatrixTVLValues, tvlMax : MatrixTVLValues,
                 tvlSteps : 0..MaxSteps,
                 probMin : MatrixProbValues, probMax : MatrixProbValues,
                 probSteps : 0..MaxSteps]
    /\ rng = <<>>
    /\ fma \in {"none", "first"}
    /\ pc = "start"
    /\ ret = NoRet
    /\ NoFetcher

CallComputeProfitabilityMatrix ==
    /\ pc = "start"
    /\ ret' = ComputeProfitabilityMatrix(args.Cost, args.Price, args.tvlMin, args.tvlMax,
                                         args.tvlSteps, args.probMin, args.probMax,
                                         args.probSteps, fma # "none")
    /\ pc' = "ComputeProfitabilityMatrix"
    /\ UNCHANGED <<bribes, tau, topK, successProb, bridgeTVL, args, rng, fma, fetcher>>

NextMatrix == CallComputeProfitabilityMatrix

SpecMatrix == InitMatrix /\ [][NextMatrix]_vars

\* ------------------------------------------------------------------------
\* Properties of ComputeProfitabilityMatrix
\* ------------------------------------------------------------------------

\* lo <= x <= hi, which no NaN satisfies
Within(x, lo, hi) == IsFinite(x) /\ fltLeq(lo, x) /\ fltLeq(x, hi)

\* C23: for tvlSteps >= 1, probSteps >= 1, tvlMin <= tvlMax and probMin <=
\* probMax the matrix has tvlSteps*probSteps points, the first at (tvlMin,
\* probMin), each with its TVL in [tvlMin, tvlMax] and its probability in
\* [probMin, probMax] (ExpectedProfitUSD is prob*tvl - censorshipCostUSD by
\* ProfitabilityPoint)
C23_AsStated ==
    (/\ pc = "ComputeProfitabilityMatrix"
     /\ args.tvlSteps >= 1 /\ args.probSteps >= 1
     /\ fltLeq(args.tvlMin, args.tvlMax) /\ fltLeq(args.probMin, args.probMax)) =>
        /\ Len(ret) = args.tvlSteps * args.probSteps
        /\ ret[1].TVLUSD = args.tvlMin
        /\ ret[1].SuccessProbability = args.probMin
        /\ \A n \in 1..Len(ret) :
              /\ Within(ret[n].TVLUSD, args.tvlMin, args.tvlMax)
              /\ Within(ret[n].SuccessProbability, args.probMin, args.probMax)

\* ------------------------------------------------------------------------
\* Specification SpecCostRepeat: CensorshipCost called twice on the same
\* records with the same tau, as TestCensorshipCost_Deterministic does
\* ------------------------------------------------------------------------

CallCensorshipCostRepeat ==
    /\ pc = "CensorshipCost"
    /\ ret' = [first |-> ret, second |-> CensorshipCost(bribes, tau)]
    /\ pc' = "CensorshipCostRepeat"
    /\ UNCHANGED <<bribes, tau, topK, successProb, bridgeTVL, args, rng, fma, fetcher>>

NextCostRepeat == CallCensorshipCost \/ CallCensorshipCostRepeat

SpecCostRepeat == InitCost /\ [][NextCostRepeat]_vars

GetTopBuilders(b, k, stats) ==
    LET conc == ComputeBuilderConcentration(b, k, stats)
    IN  IF conc.err # ErrNil THEN [builders |-> <<>>, err |-> conc.err]
        ELSE [builders |-> SubSeq(conc.stats, 1, MinInt(k, Len(conc.stats))),
              err |-> ErrNil]

\* ------------------------------------------------------------------------
\* Specification SpecTopBuilders: ComputeBuilderConcentration and then
\* GetTopBuilders on the same records and topK; the two sorts may leave
\* builders of equal block count in different orders. tau is the number of
\* records
\* ------------------------------------------------------------------------

InitTopBuilders ==
    /\ bribes \in BribeSeqs({1}, {IntPos(natOf(1000))}, ConcBuilders)
    /\ tau = Len(bribes)
    /\ topK \in 0..(MaxLen + 1)
    /\ successProb = f64Ratio(1, 2)
    /\ bridgeTVL = FloatNil
    /\ args = NoArgs
    /\ rng = <<>>
    /\ fma = "none"
    /\ pc = "start"
    /\ ret = NoRet
    /\ NoFetcher

CallGetTopBuilders ==
    /\ pc = "ComputeBuilderConcentration"
    /\ \E stats \in SortedStats(BuilderCounts(bribes)) :
           ret' = [conc |-> ret, top |-> GetTopBuilders(bribes, topK, stats)]
    /\ pc' = "GetTopBuilders"
    /\ UNCHANGED <<bribes, tau, topK, successProb, bridgeTVL, args, rng, fma, fetcher>>

NextTopBuilders == CallComputeBuilderConcentration \/ CallGetTopBuilders

SpecTopBuilders == InitTopBuilders /\ [][NextTopBuilders]_vars

\* ------------------------------------------------------------------------
\* Properties of the ranking
\* ------------------------------------------------------------------------

\* the blocks of the builders of a list
ListBlocks(list) == TopKBlocks(list, Len(list))

ListIdentities(list) == {list[i].BuilderPubkey : i \in 1..Len(list)}

\* C25: the order of builders of equal block count has no effect on the
\* top-k block sum, on alpha, on the effective cost or on the breakeven TVL:
\* the list of GetTopBuilders holds as many blocks as the first k entries of
\* the ranking ComputeBuilderConcentration returned, and every order the sort
\* may leave gives the alpha, effective cost and breakeven TVL of that ranking
C25_TieOrderIrrelevant ==
    (pc = "GetTopBuilders" /\ ret.conc.err = ErrNil) =>
        /\ ret.top.err = ErrNil
        /\ ListBlocks(ret.top.builders)
              = TopKBlocks(ret.conc.stats, MinInt(topK, Len(ret.conc.stats)))
        /\ \A stats \in SortedStats(BuilderCounts(bribes)) :
              /\ ComputeBuilderConcentration(bribes, topK, stats).alpha = ret.conc.alpha
              /\ EffectiveCensorshipCost(bribes, tau, topK, stats)
                    = EffectiveCensorshipCost(bribes, tau, topK, ret.conc.stats)
              /\ FindBreakevenTVL(bribes, successProb, tau, topK, stats)
                    = FindBreakevenTVL(bribes, successProb, tau, topK, ret.conc.stats)

\* a tie across the k-th position: the two calls rank different builders
\* among the first k
C25_Witness ==
    /\ pc = "GetTopBuilders"
    /\ ret.conc.err = ErrNil
    /\ topK < Len(ret.conc.stats)
    /\ ret.conc.stats[topK].BlockCount = ret.conc.stats[topK + 1].BlockCount
    /\ ListIdentities(ret.top.builders)
          # ListIdentities(SubSeq(ret.conc.stats, 1, topK))
    /\ tau = Len(bribes)
    /\ fltSign(ret.conc.alpha) > 0

\* ------------------------------------------------------------------------
\* internal/relay/parallel_fetcher.go: NewParallelFetcher, FetchSlotsParallel
\* and fetchWithRetry.  args is the FetchConfig, the SlotRange and the kind
\* of context of the call; slotQueue, resultsCh and errorsCh are the three
\* channels; workers[w] is the position of worker goroutine w, the slot it
\* took, the index i of its retry loop, the number of its calls of fetchSlot
\* for that slot, and the times it last passed the rate limiter and last saw
\* a fetch fail; rateLimiter is the number of ticks waiting in the channel of
\* time.Tick (it buffers one); now is the time, in units of a duration of 1.
\* ------------------------------------------------------------------------

\* most slots of a range, and the time the clock stops at
MaxSlots == 2

MaxTime == 4

\* the record fetchSlot returns for slot when the relay answers
FetchedBribe(slot) ==
    [Slot |-> slot, ValueWei |-> IntPos(natOf(1000)), BuilderPubkey |-> "a"]

\* variant of the backoff that does not grow
RetryDelayFlat(backoff, i) == backoff

\* backoff * time.Duration(1<<i)
RetryDelay(backoff, i) == backoff * 2^i

\* variant of the worker that returns when a slot failed
AfterFailureReturn == "done"

\* errors <- slot; continue
AfterFailure == "range"

\* a worker goroutine at position p that holds no slot
Worker(p) == [pc |-> p, slot |-> 0, i |-> 0, tries |-> 0, took |-> now, failedAt |-> 0]

\* worker w back at position p of its loop, the slot it held given away
Released(w, p) == [Worker(p) EXCEPT !.took = workers[w].took]

\* the slots slotRange.Start .. slotRange.End in the order they are queued
SlotsOf(start, end) == [n \in 1..(end - start + 1) |-> start + n - 1]

\* FetchSlotsParallel up to wg.Wait(): the queue is filled and closed, the
\* two result channels are made and the workers are started
CallFetchSlotsParallel ==
    /\ pc = "start"
    /\ slotQueue' = SlotsOf(args.Start, args.End)
    /\ resultsCh' = <<>>
    /\ errorsCh' = <<>>
    /\ workers' = [w \in 1..args.WorkerCount |-> Worker("range")]
    /\ ret' = [startTime |-> now]
    /\ pc' = "wg.Wait"
    /\ UNCHANGED <<bribes, tau, topK, successProb, bridgeTVL, args, rng, fma,
                   ctxDone, rateLimiter, now>>

\* for slot := range slotQueue, and the select on ctx.Done() that follows
WorkerRange(w) ==
    /\ pc = "wg.Wait"
    /\ workers[w].pc = "range"
    /\ IF slotQueue = <<>>
       THEN /\ workers' = [workers EXCEPT ![w].pc = "done"]
            /\ UNCHANGED slotQueue
       ELSE /\ slotQueue' = Tail(slotQueue)
            /\ workers' = [workers EXCEPT ![w].slot = Head(slotQueue),
                                          ![w].pc = IF ctxDone THEN "done"
                                                    ELSE "rateLimiter"]
    /\ UNCHANGED <<bribes, tau, topK, successProb, bridgeTVL, args, rng, fma, pc, ret,
                   resultsCh, errorsCh, ctxDone, rateLimiter, now>>

\* <-f.rateLimiter, then the call of fetchWithRetry
WorkerRateLimiter(w) ==
    /\ pc = "wg.Wait"
    /\ workers[w].pc = "rateLimiter"
    /\ rateLimiter > 0
    /\ rateLimiter' = rateLimiter - 1
    /\ workers' = [workers EXCEPT ![w].pc = "fetchWithRetry", ![w].i = 0,
                                  ![w].tries = 0, ![w].took = now]
    /\ UNCHANGED <<bribes, tau, topK, successProb, bridgeTVL, args, rng, fma, pc, ret,
                   slotQueue, resultsCh, errorsCh, ctxDone, now>>

\* the head of the loop of fetchWithRetry: the loop ends after attempts
\* rounds and returns on a cancelled context, both with an error, which
\* sends the slot to errors; otherwise fetchSlot is called
WorkerFetchWithRetry(w) ==
    /\ pc = "wg.Wait"
    /\ workers[w].pc = "fetchWithRetry"
    /\ IF workers[w].i >= args.RetryAttempts \/ ctxDone
       THEN /\ errorsCh' = Append(errorsCh, workers[w].slot)
            /\ workers' = [workers EXCEPT ![w] = Released(w, AfterFailure)]
       ELSE /\ workers' = [workers EXCEPT ![w].pc = "fetchSlot",
                                          ![w].tries = @ + 1]
            /\ UNCHANGED errorsCh
    /\ UNCHANGED <<bribes, tau, topK, successProb, bridgeTVL, args, rng, fma, pc, ret,
                   slotQueue, resultsCh, ctxDone, rateLimiter, now>>

\* fetchSlot returns: with the record, which goes to results, or with an
\* error, after which the worker sleeps unless this was the last round.
\* (The body of fetchSlot in the repository is a placeholder for the HTTP
\* call and always takes the second branch.)
WorkerFetchSlot(w) ==
    /\ pc = "wg.Wait"
    /\ workers[w].pc = "fetchSlot"
    /\ \E ok \in BOOLEAN :
          IF ok
          THEN /\ resultsCh' = Append(resultsCh, FetchedBribe(workers[w].slot))
               /\ workers' = [workers EXCEPT ![w] = Released(w, "range")]
          ELSE /\ workers' =
                     IF workers[w].i < args.RetryAttempts - 1
                     THEN [workers EXCEPT ![w].pc = "Sleep", ![w].failedAt = now]
                     ELSE [workers EXCEPT ![w].pc = "fetchWithRetry", ![w].i = @ + 1,
                                          ![w].failedAt = now]
               /\ UNCHANGED resultsCh
    /\ UNCHANGED <<bribes, tau, topK, successProb, bridgeTVL, args, rng, fma, pc, ret,
                   slotQueue, errorsCh, ctxDone, rateLimiter, now>>

\* time.Sleep(backoff * time.Duration(1<<i)) returns
WorkerSleep(w) ==
    /\ pc = "wg.Wait"
    /\ workers[w].pc = "Sleep"
    /\ now >= workers[w].failedAt + RetryDelay(args.RetryBackoff, workers[w].i)
    /\ workers' = [workers EXCEPT ![w].pc = "fetchWithRetry", ![w].i = @ + 1]
    /\ UNCHANGED <<bribes, tau, topK, successProb, bridgeTVL, args, rng, fma, pc, ret,
                   slotQueue, resultsCh, errorsCh, ctxDone, rateLimiter, now>>

\* wg.Wait() returns when every worker has; the channels are closed and
\* drained into the FetchResult
ReturnFetchSlotsParallel ==
    /\ pc = "wg.Wait"
    /\ \A w \in DOMAIN workers : workers[w].pc = "done"
    /\ ret' = [Bribes |-> resultsCh,
               TotalFetched |-> Len(resultsCh),
               FailedSlots |-> errorsCh,
               Duration |-> now - ret.startTime,
               ThroughputRPS |-> ieeeDiv(f64OfInt(Len(resultsCh)),
                                         f64OfInt(now - ret.startTime)),
               err |-> ErrNil]
    /\ resultsCh' = <<>>
    /\ errorsCh' = <<>>
    /\ pc' = "FetchSlotsParallel"
    /\ UNCHANGED <<bribes, tau, topK, successProb, bridgeTVL, args, rng, fma,
                   slotQueue, workers, ctxDone, rateLimiter, now>>

\* one unit of time passes; the ticker of time.Tick(config.RateLimit) sends a
\* tick every RateLimit units unless one is still waiting in its channel
\* (time.Tick returns a nil channel for a RateLimit that is not positive)
Tick ==
    /\ now < MaxTime
    /\ now' = now + 1
    /\ rateLimiter' = IF args.RateLimit > 0 /\ (now + 1) % args.RateLimit = 0
                      THEN 1 ELSE rateLimiter
    /\ UNCHANGED <<bribes, tau, topK, successProb, bridgeTVL, args, rng, fma, pc, ret,
                   slotQueue, resultsCh, errorsCh, workers, ctxDone>>

\* the owner of a cancellable context cancels it
Cancel ==
    /\ args.Ctx = "WithCancel"
    /\ ~ctxDone
    /\ pc = "wg.Wait"
    /\ ctxDone' = TRUE
    /\ UNCHANGED <<bribes, tau, topK, successProb, bridgeTVL, args, rng, fma, pc, ret,
                   slotQueue, resultsCh, errorsCh, workers, rateLimiter, now>>

NextFetch ==
    \/ CallFetchSlotsParallel
    \/ \E w \in DOMAIN workers : WorkerRange(w)
    \/ \E w \in DOMAIN workers : WorkerRateLimiter(w)
    \/ \E w \in DOMAIN workers : WorkerFetchWithRetry(w)
    \/ \E w \in DOMAIN workers : WorkerFetchSlot(w)
    \/ \E w \in DOMAIN workers : WorkerSleep(w)
    \/ ReturnFetchSlotsParallel
    \/ Tick
    \/ Cancel

\* ------------------------------------------------------------------------
\* Specification SpecFetch: NewParallelFetcher(client, config) and one call
\* of FetchSlotsParallel(ctx, slotRange, config)
\* ------------------------------------------------------------------------

FetchConfigs(workerCounts, rateLimits, attempts, backoffs, slotCounts) ==
    [Start : {10}, End : {9 + n : n \in slotCounts},
     WorkerCount : workerCounts, RateLimit : rateLimits,
     RetryAttempts : attempts, RetryBackoff : backoffs,
     Ctx : {"Background", "WithCancel"}]

InitFetcher(configs) ==
    /\ bribes = <<>>
    /\ tau = 0
    /\ topK = 0
    /\ successProb = F64Zero
    /\ bridgeTVL = FloatNil
    /\ args \in configs
    /\ rng = <<>>
    /\ fma = "none"
    /\ pc = "start"
    /\ ret = NoRet
    /\ NoFetcher

InitFetch == InitFetcher(FetchConfigs(0..2, {1}, 1..2, {1}, 0..MaxSlots))

SpecFetch == InitFetch /\ [][NextFetch]_vars

\* ------------------------------------------------------------------------
\* Properties of FetchSlotsParallel
\* ------------------------------------------------------------------------

\* how often x occurs in the sequence s
Count(s, x) == Cardinality({n \in 1..Len(s) : s[n] = x})

\* the slots of a sequence of records
SlotsIn(records) == [n \in 1..Len(records) |-> records[n].Slot]

\* the workers that took slot and have not yet sent it to a channel
Holders(slot) ==
    {w \in DOMAIN workers :
        /\ workers[w].slot = slot
        /\ workers[w].pc \in {"rateLimiter", "fetchWithRetry", "fetchSlot", "Sleep"}}

\* C26: when the context is never cancelled and WorkerCount >= 1, at the
\* return of FetchSlotsParallel every slot of [Start, End] is exactly once in
\* Bribes or FailedSlots, so TotalFetched + len(FailedSlots) = End - Start + 1;
\* and at no moment is a slot held by two workers or held and queued or
\* reported at once
C26_EverySlotOnce ==
    /\ (pc = "FetchSlotsParallel" /\ ~ctxDone /\ args.WorkerCount >= 1) =>
          /\ \A slot \in args.Start..args.End :
                Count(SlotsIn(ret.Bribes), slot) + Count(ret.FailedSlots, slot) = 1
          /\ ret.TotalFetched + Len(ret.FailedSlots) = args.End - args.Start + 1
    /\ pc = "wg.Wait" =>
          \A slot \in args.Start..args.End :
              /\ Count(slotQueue, slot) + Cardinality(Holders(slot))
                    + Count(SlotsIn(resultsCh), slot) + Count(errorsCh, slot) <= 1
              /\ ~ctxDone =>
                    Count(slotQueue, slot) + Cardinality(Holders(slot))
                        + Count(SlotsIn(resultsCh), slot) + Count(errorsCh, slot) = 1

\* two workers, two slots, no cancellation: one slot fetched, one failed
C26_Witness ==
    /\ pc = "FetchSlotsParallel"
    /\ ~ctxDone
    /\ args.WorkerCount = 2
    /\ args.End = args.Start + 1
    /\ ret.TotalFetched = 1
    /\ ret.FailedSlots = <<args.Start>>
    /\ SlotsIn(ret.Bribes) = <<args.End>>

C28_AsStated ==
    pc = "wg.Wait" =>
        \A w \in DOMAIN workers :
            (workers[w].pc = "rateLimiter" /\ now >= workers[w].took + args.RateLimit)
                => rateLimiter > 0

\* ------------------------------------------------------------------------
\* Specification SpecRetry: one worker fetching one slot, with up to three
\* attempts and a backoff of 0 or 1
\* ------------------------------------------------------------------------

InitRetry == InitFetcher(FetchConfigs({1}, {1}, 0..3, {0, 1}, {1}))

SpecRetry == InitRetry /\ [][NextFetch]_vars

\* what holds of a worker inside fetchWithRetry at every moment: it has
\* called fetchSlot at most attempts times, once per round of the loop; the
\* call of round i >= 1 comes backoff * 2^(i-1) or more after the failure of
\* round i-1; it does not sleep after the last round
RetryState(w) ==
    /\ workers[w].pc \in {"fetchWithRetry", "fetchSlot", "Sleep"} =>
          workers[w].tries <= args.RetryAttempts
    /\ workers[w].pc \in {"fetchSlot", "Sleep"} =>
          workers[w].tries = workers[w].i + 1
    /\ (workers[w].pc = "fetchSlot" /\ workers[w].i >= 1) =>
          now >= workers[w].failedAt + args.RetryBackoff * 2^(workers[w].i - 1)
    /\ workers[w].pc = "Sleep" => workers[w].i < args.RetryAttempts - 1

\* what holds of every step of a worker: fetchSlot is not called once the
\* context is cancelled; a success is returned at once; a failure is
\* reported only when the context is cancelled or attempts calls have failed
RetryStep(w) ==
    /\ workers'[w].tries > workers[w].tries => ~ctxDone
    /\ resultsCh' # resultsCh =>
          /\ workers[w].pc = "fetchSlot"
          /\ workers'[w].pc = "range"
    /\ errorsCh' # errorsCh =>
          \/ ctxDone
          \/ /\ workers[w].tries = args.RetryAttempts
             /\ workers[w].i = args.RetryAttempts

\* C29: fetchWithRetry calls fetchSlot at most attempts times, returns the
\* first success, waits backoff * 2^i after the i-th failed call (i from 0)
\* but not after the last, calls no more once the context is cancelled, and
\* fails only after attempts failed calls or a cancellation
C29_RetryWithBackoff ==
    /\ [](pc = "wg.Wait" => \A w \in DOMAIN workers : RetryState(w))
    /\ [][pc = "wg.Wait" /\ pc' = "wg.Wait" => \A w \in DOMAIN workers : RetryStep(w)]_vars

\* the third call of fetchSlot, made two units after the second failed
C29_Witness ==
    /\ pc = "wg.Wait"
    /\ args.RetryAttempts = 3
    /\ args.RetryBackoff = 1
    /\ ~ctxDone
    /\ workers[1].pc = "fetchSlot"
    /\ workers[1].i = 2
    /\ workers[1].tries = 3
    /\ now = workers[1].failedAt + 2

\* ------------------------------------------------------------------------
\* analysis (Statistics): ComputeConcentrationTrends
\* ------------------------------------------------------------------------

\* builderCounts of a window: the records per BuilderPubkey as it is
TrendCounts(window) ==
    [key \in {window[n].BuilderPubkey : n \in 1..Len(window)} |->
        Cardinality({n \in 1..Len(window) : window[n].BuilderPubkey = key})]

\* the orders in which a range over the map may visit its keys
MapOrders(counts) ==
    {f \in [1..Cardinality(DOMAIN counts) -> DOMAIN counts] :
        \A m, n \in DOMAIN f : m # n => f[m] # f[n]}

\* hhi += share * share for the keys from the n-th of order on
RECURSIVE HerfindahlLoop(_, _, _, _, _, _)
HerfindahlLoop(counts, total, order, n, hhi, choice) ==
    IF n > Len(order) THEN hhi
    ELSE Only({HerfindahlLoop(counts, total, order, n + 1,
                              stdDevAdd(hhi, share, choice), choice) :
                  share \in {f64Div(f64OfInt(counts[order[n]]), f64OfInt(total))}})

\* the values the trend of one window may take: the two sorts and the range
\* over builderCounts each have their order
TrendsOfWindow(window, slot, choice) ==
    {[Slot |-> slot,
      ConcentrationTop3 |-> ComputeBuilderConcentration(window, 3, stats3).alpha,
      ConcentrationTop5 |-> ComputeBuilderConcentration(window, 5, stats5).alpha,
      UniqueBuilders |-> Cardinality(DOMAIN TrendCounts(window)),
      HerfindahlIndex |-> HerfindahlLoop(TrendCounts(window), Len(window), order, 1,
                                         F64Zero, choice)] :
        stats3 \in SortedStats(BuilderCounts(window)),
        stats5 \in SortedStats(BuilderCounts(window)),
        order \in MapOrders(TrendCounts(window))}

\* the results ComputeConcentrationTrends(windowSize) may return on the
\* records b; a window size of 0 reads s.bribes[-1]
ComputeConcentrationTrends(b, windowSize, choice) ==
    IF Len(b) < windowSize THEN {<<>>}
    ELSE IF windowSize < 1 THEN {Panic("index out of range [-1]")}
    ELSE Only({{r \in [1..(Len(b) - windowSize + 1) -> UNION {per[n] : n \in DOMAIN per}] :
                   \A n \in DOMAIN r : r[n] \in per[n]} :
                  per \in {[n \in 1..(Len(b) - windowSize + 1) |->
                              TrendsOfWindow(WindowAt(b, windowSize + n - 2, windowSize),
                                             b[windowSize + n - 1].Slot, choice)]}})

\* ------------------------------------------------------------------------
\* Specification SpecTrends: NewStatistics(bribes) followed by one call of
\* ComputeConcentrationTrends
\* ------------------------------------------------------------------------

InitTrends ==
    /\ bribes \in BribeSeqs({1, 2}, {IntPos(natOf(1000))}, {"", "a", "unknown"})
    /\ tau = 0
    /\ topK = 0
    /\ successProb = F64Zero
    /\ bridgeTVL = FloatNil
    /\ args \in [windowSize : 0..(MaxLen + 1)]
    /\ rng = <<>>
    /\ fma \in {"none", "first"}
    /\ pc = "start"
    /\ ret = NoRet
    /\ NoFetcher

CallComputeConcentrationTrends ==
    /\ pc = "start"
    /\ ret' \in ComputeConcentrationTrends(bribes, args.windowSize, fma)
    /\ pc' = "ComputeConcentrationTrends"
    /\ UNCHANGED <<bribes, tau, topK, successProb, bridgeTVL, args, rng, fma, fetcher>>

NextTrends == CallComputeConcentrationTrends

SpecTrends == InitTrends /\ [][NextTrends]_vars

\* ------------------------------------------------------------------------
\* Properties of ComputeConcentrationTrends
\* ------------------------------------------------------------------------

\* the records of the j-th window (j from 1)
TrendWindow(j) == SubSeq(bribes, j, j + args.windowSize - 1)

\* C30: the unique-builder count of every window equals the number of
\* BuilderStats entries ComputeBuilderConcentration derives for the window,
\* which is GetBuilderDiversity of the window
C30_AsStated ==
    (pc = "ComputeConcentrationTrends" /\ 1 <= args.windowSize
        /\ args.windowSize <= Len(bribes)) =>
        \A j \in 1..Len(ret) :
            /\ ret[j].UniqueBuilders = GetBuilderDiversity(TrendWindow(j))
            /\ \A stats \in SortedStats(BuilderCounts(TrendWindow(j))) :
                  ret[j].UniqueBuilders
                      = Len(ComputeBuilderConcentration(TrendWindow(j), 3, stats).stats)

====
